---- MODULE Spec2Model ----
(***************************************************************************)
(* Model of the character personalization pipeline of mcp-cosplay:         *)
(* the Cosplay orchestrator (two revisions of cosplay.ts are in the tree), *)
(* the ContentSafetyChecker, the DynamicCharacterGenerator, the            *)
(* DialectService, the PersonalityManager and the ConfigManager.           *)
(*                                                                         *)
(* Strings are sequences of segments (a segment is one unit of text: a     *)
(* character, a word that the sentiment keyword scan recognises, or one    *)
(* entry of a decoration table).  The empty sequence is the empty string;  *)
(* an optional string that the code only tests for truthiness is the       *)
(* empty sequence when it is absent.  An optional number is a sequence of  *)
(* length 0 (undefined) or 1.  Chinese literals of the source are written  *)
(* in pinyin or glossed, marked zh.                                        *)
(***************************************************************************)
EXTENDS Integers, Sequences, FiniteSets, TLC

VARIABLES
  rev,              \* which revision of cosplay.ts runs: "cosplay_ts" or "part_005"
  now,              \* Date.now()
  server,           \* TRUE once Cosplay.setServer has been called
  cmConfig,         \* ConfigManager.config
  checkerConfig,    \* ContentSafetyChecker.config
  safetyCache,      \* Cosplay.safetyCache : key -> [result, timestamp]
  characterCache,   \* Cosplay.characterCache : key -> [character, timestamp]
  characterProfiles,\* PersonalityManager.characterProfiles : name -> profile
  task,             \* the calls in flight, one record per caller
  done,             \* what the call that completed in the last step returned or threw
  hits,             \* the cache entries returned by lookups of the last step
  calls,            \* the number of calls started so far
  prev              \* the safety check completed before the one in done

vars == <<rev, now, server, cmConfig, checkerConfig, safetyCache,
          characterCache, characterProfiles, task, done, hits, calls, prev>>

----------------------------------------------------------------------------
(* Generic helpers *)

Some(x) == <<x>>
None == <<>>
Truthy(o) == o # <<>> /\ o[1] # 0
\* JavaScript `o || d` for an optional number
OrElse(o, d) == IF Truthy(o) THEN o[1] ELSE d

Min(a, b) == IF a < b THEN a ELSE b
Max(a, b) == IF a > b THEN a ELSE b

MapSet(m, k, v) == [x \in (DOMAIN m) \cup {k} |-> IF x = k THEN v ELSE m[x]]
MapDel(m, ks) == [x \in (DOMAIN m) \ ks |-> m[x]]
\* { ...a, ...b }
Spread(a, b) == [k \in (DOMAIN a) \cup (DOMAIN b) |-> IF k \in DOMAIN b THEN b[k] ELSE a[k]]
EmptyMap == <<>>

Revisions == {"cosplay_ts", "part_005"}

----------------------------------------------------------------------------
(* Time *)

cacheTTL == 5 * 60 * 1000
characterCacheTTL == 30 * 60 * 1000

\* The instants at which the clock is observed.  For an entry written at
\* instant 0: its age is below the safety TTL at 0 and reaches it at
\* cacheTTL; it is below the synthesis TTL at cacheTTL and reaches it at
\* characterCacheTTL.
Instants == {0, cacheTTL, characterCacheTTL}

----------------------------------------------------------------------------
(* Input domains *)

\* Request texts: two texts on which the revision of getCacheKey that keys
\* on length, first and last unit agrees.
Texts == { <<"x", "error", "x">>, <<"x", "great", "x">> }

Tasks == {"t1"}

\* task.log: what one call has done so far
NoLog == [classifier |-> 0, synth |-> 0, trait |-> 0, dialect |-> 0, rewrite |-> 0,
          traitFallbacks |-> 0, dialectFallbacks |-> 0,
          safetyWrites |-> 0, cacheWrites |-> 0, storeWrites |-> 0]
Bump(log, f) == [log EXCEPT ![f] = @ + 1]

NoReq == [text |-> <<>>, character |-> <<>>, intensity |-> None, context |-> <<>>,
          description |-> <<>>, isLLMContent |-> FALSE]
\* One call in flight: the operation, where it is suspended, its request,
\* the locals that live across its awaits, and the prompt of the rewrite
\* request it has sent
IdleTask == [op |-> "idle", pc |-> "idle", req |-> NoReq, log |-> NoLog,
             classifier |-> "none", verdict |-> <<>>, resolved |-> "unresolved",
             generated |-> <<>>,
             personality |-> <<>>, trait |-> <<>>, dialect |-> <<>>,
             prompt |-> <<>>]
NoDone == [op |-> "none", task |-> "none"]
NoPrev == [op |-> "none"]

----------------------------------------------------------------------------
(* ConfigManager *)

\* loadConfig's defaultConfig
defaultConfig ==
  [defaultPersonality |-> <<"enthusiastic">>,
   defaultIntensity |-> 3,
   maxIntensity |-> 5,
   contentSafety |-> [enabled |-> TRUE, strictMode |-> TRUE]]

getContentSafetyConfig == cmConfig.contentSafety

\* ConfigManager.updateContentSafetyConfig
updateContentSafetyConfig(updates) ==
  [cmConfig EXCEPT !.contentSafety = Spread(cmConfig.contentSafety, updates)]

\* ContentSafetyChecker.updateConfig
checkerUpdateConfig(newConfig) == Spread(checkerConfig, newConfig)

SafetyUpdates == { [enabled |-> FALSE], [enabled |-> TRUE] }

----------------------------------------------------------------------------
(* ContentSafetyChecker *)

NoReason == <<>>
DisabledVerdict ==
  [isViolation |-> FALSE, confidence |-> 0,
   reason |-> <<"Content safety check disabled">>, category |-> <<>>]

\* What the classifier may answer.  shape "none": null, or not an object;
\* shape "object": an object with neither content text nor text;
\* shape "text": content[0].text (or text) holds a payload, which is JSON
\* (kind "json", the parsed value in `value`) or prose.
ClassifierResponses ==
  { [shape |-> "none"],
    [shape |-> "object", fields |-> EmptyMap],
    [shape |-> "text", payload |-> [kind |-> "json", value |->
        [isViolation |-> TRUE, confidence |-> 90, reason |-> <<"leader-related">>]]],
    [shape |-> "text", payload |-> [kind |-> "json", value |->
        [isViolation |-> TRUE, confidence |-> 90]]],
    [shape |-> "text", payload |-> [kind |-> "json", value |->
        [isViolation |-> FALSE, confidence |-> 10, reason |-> <<"harmless">>]]] }

Field(obj, f, dflt) == IF f \in DOMAIN obj THEN obj[f] ELSE dflt

\* ContentSafetyChecker.extractTextFromResponse: the content text, else the
\* response serialised by JSON.stringify, which parses back to the response.
checkerExtractTextFromResponse(response) ==
  IF response.shape = "text" THEN response.payload
  ELSE [kind |-> "json", value |-> response.fields]

\* ContentSafetyChecker.extractFromText; confidence in hundredths
extractFromText(payload) ==
  LET hasViolation == \E i \in 1..Len(payload.segs) :
                         payload.segs[i] \in {"zh_weigui", "violation", "zh_shi"}
      confidence == IF payload.confidenceMatch # None
                    THEN payload.confidenceMatch[1] ELSE 50
  IN [isViolation |-> hasViolation /\ confidence > 50,
      confidence |-> Min(confidence, 100),
      reason |-> <<"LLM result parsed (zh)">>,
      category |-> <<"content safety (zh)">>]

\* The body of checkWithLLM after the response arrived.  The result is
\* [threw |-> TRUE] or [threw |-> FALSE, verdict |-> ...].
parseClassifierResponse(response) ==
  IF response.shape = "none"
  THEN [threw |-> TRUE]
  ELSE LET resultText == checkerExtractTextFromResponse(response)
       IN IF resultText.kind = "json"
          THEN [threw |-> FALSE, verdict |->
                 [isViolation |-> Field(resultText.value, "isViolation", FALSE),
                  confidence |-> Field(resultText.value, "confidence", 0),
                  reason |-> Field(resultText.value, "reason", NoReason),
                  category |-> Field(resultText.value, "category", <<>>)]]
          ELSE [threw |-> FALSE, verdict |-> extractFromText(resultText)]

SafetyCheckFailed == <<"Content safety check failed">>

----------------------------------------------------------------------------
(* Cosplay: the safety cache *)

\* revision cosplay.ts: 32 hex digits of SHA-256, one key per content
Sha256Key(text) == <<"sha256">> \o text
\* revision part_005: length, code of the first unit, code of the unit at
\* min(length - 1, 100); charCodeAt outside the string is NaN
CharCodeAt(text, i) == IF i >= 0 /\ i < Len(text) THEN text[i + 1] ELSE "NaN"
WeakKey(text) ==
  <<Len(text), CharCodeAt(text, 0), CharCodeAt(text, Min(Len(text) - 1, 100))>>

getCacheKey(text) == IF rev = "cosplay_ts" THEN Sha256Key(text) ELSE WeakKey(text)

\* Two other readings of the TTL, against which the properties of the cache
\* are tested: no entry is ever served, and an entry is still served at the
\* instant its age reaches the TTL
isCacheValidNever(timestamp) == FALSE
isCacheValidInclusive(timestamp) == now - timestamp <= cacheTTL

isCacheValid(timestamp) == now - timestamp < cacheTTL

\* A sweep that deletes nothing, against which the property of the sweep on
\* writes is tested
cleanupCacheKeepingAll(cache) == cache

cleanupCache(cache) ==
  MapDel(cache, {k \in DOMAIN cache : ~isCacheValid(cache[k].timestamp)})

\* The synchronous head of checkContentWithCache:
\*   "hit"      a valid entry is returned
\*   "disabled" checkContent answers without a call
\*   "noserver" checkWithLLM throws before any request
\*   "call"     the request to the classifier is issued
safetyLookup(text) ==
  LET cacheKey == getCacheKey(text)
  IN IF cacheKey \in DOMAIN safetyCache /\ isCacheValid(safetyCache[cacheKey].timestamp)
     THEN "hit"
     ELSE IF ~checkerConfig.enabled THEN "disabled"
     ELSE IF ~server THEN "noserver"
     ELSE "call"

\* safetyCache.set followed by cleanupCache
safetyStore(text, result) ==
  cleanupCache(MapSet(safetyCache, getCacheKey(text),
                      [result |-> result, timestamp |-> now]))

----------------------------------------------------------------------------
(* Strings *)

Includes(s, seg) == \E i \in 1..Len(s) : s[i] = seg
\* String.prototype.toLowerCase on the segments that have an upper case
LowerSeg(seg) == CASE seg = "Boss" -> "boss" [] seg = "Teacher" -> "teacher" [] OTHER -> seg
toLowerCase(s) == [i \in 1..Len(s) |-> LowerSeg(s[i])]
\* `a || b` on strings
StrOr(a, b) == IF a # <<>> THEN a ELSE b

BuiltIns == { <<"enthusiastic">>, <<"sarcastic">>, <<"professional">> }

----------------------------------------------------------------------------
(* DialectService *)

HongXiuquan == <<"Hong", "Xiuquan">>
SunZhongshan == <<"Sun", "Zhongshan">>

StandardDialectName == <<"biaozhun guanhua (zh)">>
StandardDialectRegion == <<"quanguo (zh)">>

\* DialectService.generateFallbackDialect: dialectMap, else the standard
\* dialect; pronunciationNotes is in no entry of this table
dialectFallbackTable(characterName) ==
  CASE characterName = HongXiuquan ->
         [name |-> <<"Guangdong Kejia hua (zh)">>, region |-> <<"Guangdong Huaxian (zh)">>,
          characteristics |-> << <<"kejia fangyan">>, <<"gu hanyu">>, <<"zhuangzhong">> >>,
          commonPhrases |-> << <<"tianfu">>, <<"tianguo">>, <<"qingyao">>, <<"wansui">>, <<"tianwang">> >>,
          slangWords |-> << <<"tianfu">>, <<"tianguo">>, <<"qingyao">> >>,
          grammarPatterns |-> << <<"gudian jushi">>, <<"zongjiao yongyu">> >>,
          exampleSentences |-> << <<"tianfu xiafan">>, <<"qingyao bi mie">> >>]
    [] characterName = SunZhongshan ->
         [name |-> <<"Guangdong Zhongshan hua (zh)">>, region |-> <<"Guangdong Zhongshan (zh)">>,
          characteristics |-> << <<"yueyu">>, <<"jindai hanyu">>, <<"geming yongyu">> >>,
          commonPhrases |-> << <<"geming">>, <<"gonghe">>, <<"minguo">>, <<"tongzhi">>, <<"ziyou">> >>,
          slangWords |-> << <<"geming">>, <<"gonghe">> >>,
          grammarPatterns |-> << <<"xiandai hanyu">>, <<"zhengzhi shuyu">> >>,
          exampleSentences |-> << <<"geming shangwei chenggong">> >>]
    [] OTHER ->
         [name |-> StandardDialectName, region |-> StandardDialectRegion,
          characteristics |-> << <<"biaozhun hanyu">> >>,
          commonPhrases |-> << <<"shi">>, <<"bushi">>, <<"henhao">>, <<"bucuo">> >>,
          slangWords |-> << >>,
          grammarPatterns |-> << <<"xiandai hanyu yufa">> >>,
          exampleSentences |-> << <<"biaozhun liju">> >>]

dialectGenerateFallbackDialect(request) ==
  LET fallbackDialect == dialectFallbackTable(request.characterName)
  IN [success |-> TRUE,
      dialect |->
        [name |-> StrOr(Field(fallbackDialect, "name", <<>>), StandardDialectName),
         region |-> StrOr(Field(fallbackDialect, "region", <<>>), StandardDialectRegion),
         characteristics |-> Field(fallbackDialect, "characteristics", <<>>),
         commonPhrases |-> Field(fallbackDialect, "commonPhrases", <<>>),
         pronunciationNotes |-> Field(fallbackDialect, "pronunciationNotes", <<>>),
         slangWords |-> Field(fallbackDialect, "slangWords", <<>>),
         grammarPatterns |-> Field(fallbackDialect, "grammarPatterns", <<>>),
         exampleSentences |-> Field(fallbackDialect, "exampleSentences", <<>>)]]

\* What the service may answer to the dialect request.  shape "none": no
\* content text and no text; shape "text": a payload, JSON or prose.
LLMDialect ==
  [name |-> <<"test dialect">>, region |-> <<"test region">>,
   characteristics |-> << <<"feature1">> >>, commonPhrases |-> << <<"phrase1">> >>,
   pronunciationNotes |-> << <<"note1">> >>, slangWords |-> << <<"slang1">> >>,
   grammarPatterns |-> << <<"grammar1">> >>, exampleSentences |-> << <<"example1">> >>]

DialectResponses ==
  { [shape |-> "text", payload |-> [kind |-> "json", value |-> LLMDialect]],
    [shape |-> "text", payload |-> [kind |-> "json", value |->
        [name |-> <<"test dialect">>, slangWords |-> << <<"slang1">> >>]]] }

ArrayField(obj, f) == Field(obj, f, <<>>)

\* !parsed[f].  A parsed object lists under "arrays" the fields whose value
\* is a JSON array where a string is expected: the empty array is truthy,
\* and as a string it is the empty string.
JsonFalsy(parsed, f) ==
  Field(parsed, f, <<>>) = <<>> /\ f \notin Field(parsed, "arrays", {})

\* DialectService.extractTextFromResponse then parseLLMResponse:
\* [threw |-> TRUE] or [threw |-> FALSE, dialect |-> ...]
dialectParseLLMResponse(response) ==
  IF response.shape # "text" THEN [threw |-> TRUE]
  ELSE IF response.payload.kind # "json" THEN [threw |-> TRUE]
  ELSE LET parsed == response.payload.value
       IN IF JsonFalsy(parsed, "name") \/ JsonFalsy(parsed, "region")
          THEN [threw |-> TRUE]
          ELSE [threw |-> FALSE, dialect |->
                 [name |-> parsed.name,
                  region |-> parsed.region,
                  characteristics |-> ArrayField(parsed, "characteristics"),
                  commonPhrases |-> ArrayField(parsed, "commonPhrases"),
                  pronunciationNotes |-> ArrayField(parsed, "pronunciationNotes"),
                  slangWords |-> ArrayField(parsed, "slangWords"),
                  grammarPatterns |-> ArrayField(parsed, "grammarPatterns"),
                  exampleSentences |-> ArrayField(parsed, "exampleSentences")]]

\* DialectService.queryDialect once its request has settled: outcome is
\* [kind |-> "reply", response |-> r] or [kind |-> "error"]
queryDialectSettled(request, outcome) ==
  IF outcome.kind = "error" THEN dialectGenerateFallbackDialect(request)
  ELSE LET parsed == dialectParseLLMResponse(outcome.response)
       IN IF parsed.threw THEN dialectGenerateFallbackDialect(request)
          ELSE [success |-> TRUE, dialect |-> parsed.dialect]

----------------------------------------------------------------------------
(* DynamicCharacterGenerator *)

IncludesAny(s, segs) == \E seg \in segs : Includes(s, seg)

inferCategory(characterName) ==
  LET name == toLowerCase(characterName)
  IN IF IncludesAny(name, {"dora", "crayon", "naruto", "onepiece", "duola", "labi",
                           "huoying", "haizei", "aoteman"})
     THEN <<"anime">>
     ELSE IF IncludesAny(name, {"teacher", "professor", "expert", "laoshi", "jiaoshou", "zhuanjia"})
     THEN <<"professional">>
     ELSE IF IncludesAny(name, {"star", "actor", "singer", "mingxing", "yanyuan", "geshou"})
     THEN <<"entertainment">>
     ELSE IF IncludesAny(name, {"boss", "ceo", "leader", "laoban", "lingdao", "zongcai"})
     THEN <<"business">>
     ELSE <<"custom">>

DefaultDescription(request) ==
  StrOr(request.description, <<"Character: ">> \o request.characterName)

getFallbackPersonalityConfig(request) ==
  [signaturePhrases |-> << <<"I am ">> \o request.characterName,
                           <<"This is ">> \o request.characterName \o <<"'s style">>,
                           request.characterName \o <<" tells you">> >>,
   toneWords |-> << <<"hmm">>, <<"oh">>, <<"ah">>, <<"ne">>, <<"ba">> >>,
   attitude |-> <<"neutral">>,
   speechPatterns |-> << <<"direct expression">>, <<"first person">> >>,
   backgroundContext |-> request.characterName \o <<"'s character setting">>,
   emojiPreferences |-> << <<"emoji:smile">>, <<"emoji:masks">>, <<"emoji:sparkles">> >>,
   languageStyle |-> <<"standard">>]

\* DynamicCharacterGenerator.generateFallbackDialect: its own table, with
\* pronunciationNotes
generatorFallbackDialect(characterName) ==
  CASE characterName = HongXiuquan ->
         Spread(dialectFallbackTable(characterName),
                [pronunciationNotes |-> << <<"kejia fayin">>, <<"gu hanyu yinyun">> >>])
    [] characterName = SunZhongshan ->
         Spread(dialectFallbackTable(characterName),
                [pronunciationNotes |-> << <<"yueyu zhongshan kouyin">>, <<"jindai guoyu fayin">> >>])
    [] OTHER ->
         Spread(dialectFallbackTable(characterName),
                [pronunciationNotes |-> << <<"biaozhun putonghua fayin">> >>])

fallbackAttitude(characterName) ==
  LET name == toLowerCase(characterName)
  IN IF IncludesAny(name, {"laoshi", "jiaoshou", "zhuanjia"})
     THEN [attitude |-> <<"professional">>,
           emojiPreferences |-> << <<"emoji:books">>, <<"emoji:cap">>, <<"emoji:briefcase">>, <<"emoji:chart">> >>]
     ELSE IF IncludesAny(name, {"pengyou", "huoban", "duola"})
     THEN [attitude |-> <<"friendly">>,
           emojiPreferences |-> << <<"emoji:cat">>, <<"emoji:dizzy">>, <<"emoji:sparkles">>, <<"emoji:smile">> >>]
     ELSE IF IncludesAny(name, {"laoban", "lingdao"})
     THEN [attitude |-> <<"superior">>,
           emojiPreferences |-> << <<"emoji:money">>, <<"emoji:masks">>, <<"emoji:eyes">>, <<"emoji:upsidedown">> >>]
     ELSE [attitude |-> <<"friendly">>,
           emojiPreferences |-> << <<"emoji:smile">>, <<"emoji:thumbsup">>, <<"emoji:sparkles">>, <<"emoji:dizzy">> >>]

generateFallbackCharacter(request) ==
  LET inferred == fallbackAttitude(request.characterName)
  IN [success |-> TRUE,
      character |->
        [name |-> request.characterName,
         description |-> DefaultDescription(request),
         personality |->
           [signaturePhrases |-> << <<"I am ">> \o request.characterName, <<"Let me think">>,
                                    <<"Do you know">>, <<"I think">>, <<"No problem">> >>,
            toneWords |-> << <<"hmm">>, <<"oh">>, <<"ah">>, <<"ne">>, <<"ba">> >>,
            attitude |-> inferred.attitude,
            speechPatterns |-> << <<"friendly communication">>, <<"positive response">>,
                                  <<"expressing opinions">>, <<"giving suggestions">> >>,
            backgroundContext |-> StrOr(request.description,
                                        <<"A unique character: ">> \o request.characterName),
            emojiPreferences |-> inferred.emojiPreferences,
            languageStyle |-> <<"Natural and smooth conversational style">>,
            dialect |-> Some(generatorFallbackDialect(request.characterName))],
         category |-> inferCategory(request.characterName)]]

\* What the service may answer to the trait request
LLMTraits ==
  [signaturePhrases |-> << <<"test phrase">> >>, toneWords |-> << <<"en">> >>,
   attitude |-> <<"critical">>, speechPatterns |-> << <<"direct">> >>,
   backgroundContext |-> <<"test background">>,
   emojiPreferences |-> << <<"emoji:smile">> >>, languageStyle |-> <<"standard">>]

TraitResponses ==
  { [shape |-> "none"],
    [shape |-> "text", payload |-> [kind |-> "json", value |-> LLMTraits]] }

\* DynamicCharacterGenerator.extractFromText on a text none of whose lines
\* names a trait
traitDefaults ==
  [signaturePhrases |-> << >>, toneWords |-> << >>, attitude |-> <<"friendly">>,
   speechPatterns |-> << >>, backgroundContext |-> <<>>,
   emojiPreferences |-> << >>, languageStyle |-> <<"casual">>]

\* extractTextFromResponse (the empty string when there is no text), then
\* parseLLMResponse
traitParseLLMResponse(response) ==
  IF response.shape = "text" /\ response.payload.kind = "json"
  THEN LET parsed == response.payload.value
       IN [signaturePhrases |-> ArrayField(parsed, "signaturePhrases"),
           toneWords |-> ArrayField(parsed, "toneWords"),
           attitude |-> StrOr(Field(parsed, "attitude", <<>>), <<"friendly">>),
           speechPatterns |-> ArrayField(parsed, "speechPatterns"),
           backgroundContext |-> Field(parsed, "backgroundContext", <<>>),
           emojiPreferences |-> ArrayField(parsed, "emojiPreferences"),
           languageStyle |-> StrOr(Field(parsed, "languageStyle", <<>>), <<"casual">>)]
  ELSE traitDefaults

\* generatePersonalityConfig once its request has settled
\* (Promise.allSettled's view of it)
traitSettled(outcome) ==
  IF outcome.kind = "error" THEN [status |-> "rejected"]
  ELSE [status |-> "fulfilled", value |-> traitParseLLMResponse(outcome.response)]

\* generateDialectConfig once its request has settled: queryDialect never rejects
dialectSettled(request, outcome) ==
  [status |-> "fulfilled",
   value |-> queryDialectSettled([characterName |-> request.characterName], outcome)]

\* A composition that drops the dialect branch, against which the property
\* of the composition is tested
composeCharacterWithoutDialect(request, personalityPromise, dialectPromise) ==
  [success |-> TRUE,
   character |->
     [name |-> request.characterName,
      description |-> DefaultDescription(request),
      personality |->
        Spread(IF personalityPromise.status = "fulfilled"
               THEN personalityPromise.value
               ELSE getFallbackPersonalityConfig(request),
               [dialect |-> None]),
      category |-> inferCategory(request.characterName)]]

\* DynamicCharacterGenerator.generateCharacter after Promise.allSettled
composeCharacter(request, personalityPromise, dialectPromise) ==
  LET personalityConfig == IF personalityPromise.status = "fulfilled"
                           THEN personalityPromise.value
                           ELSE getFallbackPersonalityConfig(request)
      dialectConfig == IF dialectPromise.status = "fulfilled" /\ dialectPromise.value.success
                       THEN Some(dialectPromise.value.dialect)
                       ELSE None
  IN [success |-> TRUE,
      character |->
        [name |-> request.characterName,
         description |-> DefaultDescription(request),
         personality |-> Spread(personalityConfig, [dialect |-> dialectConfig]),
         category |-> inferCategory(request.characterName)]]

----------------------------------------------------------------------------
(* Math.random: a value in hundredths, one field of rnd per call site *)

RandValues == {0, 50, 99}
RandSites == {"sigPick", "sigGate", "tonePick", "toneGate", "emoPick", "emoGate",
              "prefixPick", "intensPick", "suffixPick",
              "emoji1Pick", "emoji1Pos", "emoji2Pick", "emoji2Pos",
              "cpOuter", "cpGate", "cpPick", "cpPos", "cpIndex"}
Uniform(v) == [site \in RandSites |-> v]
\* Math.floor(Math.random() * n)
Pick(r, n) == (r * n) \div 100
\* Math.random() < p, p in hundredths
Below(r, p) == r < p
\* array[Math.floor(Math.random() * array.length)]
PickOf(r, array) == array[Pick(r, Len(array)) + 1]

----------------------------------------------------------------------------
(* EmotionAnalyzer *)

positiveKeywords == {"great", "awesome", "excellent", "amazing", "wonderful", "fantastic",
                     "good", "nice", "perfect", "love", "like", "happy", "excited",
                     "chenggong", "henhao", "bang", "youxiu", "wanmei", "xihuan", "kaixin"}
negativeKeywords == {"bad", "terrible", "awful", "horrible", "hate", "dislike", "angry",
                     "frustrated", "disappointed", "sad", "wrong", "error",
                     "zaogao", "cha", "taoyan", "fennu", "shiwang", "cuowu", "shibai"}

\* The keywords that the lower-cased segment contains as substrings
KeywordsOf(seg) ==
  CASE seg = "Awesome! " -> {"awesome"}
    [] seg = "Fantastic! " -> {"fantastic"}
    [] seg = "Excellent, " -> {"excellent"}
    [] seg = "Great, " -> {"great"}
    [] seg = "Oh great... " -> {"great"}
    [] seg = "amazingly" -> {"amazing"}
    [] seg = "tai bang le! (zh)" -> {"bang"}
    [] seg = "jianzhi wanmei! (zh)" -> {"wanmei"}
    [] seg = "wo tai xihuan le! (zh)" -> {"xihuan"}
    [] seg = "Sad!" -> {"sad"}
    [] seg \in positiveKeywords \cup negativeKeywords -> {seg}
    [] OTHER -> {}

analyzeSentiment(text) ==
  LET found == UNION {KeywordsOf(text[i]) : i \in 1..Len(text)}
      positiveScore == Cardinality(found \cap positiveKeywords)
      negativeScore == Cardinality(found \cap negativeKeywords)
  IN [emotion |-> IF positiveScore > negativeScore THEN "positive"
                  ELSE IF negativeScore > positiveScore THEN "negative"
                  ELSE "neutral",
      keywords |-> found]

----------------------------------------------------------------------------
(* ConfigManager.createCharacterConfig *)

Clamp(lo, hi, x) == Max(lo, Min(hi, x))

createCharacterConfig(character, intensity) ==
  LET validType == IF character \in BuiltIns THEN character
                   ELSE cmConfig.defaultPersonality
  IN [type |-> validType,
      intensity |-> IF intensity # None
                    THEN Clamp(0, cmConfig.maxIntensity, intensity[1])
                    ELSE cmConfig.defaultIntensity,
      useEmojis |-> OrElse(intensity, cmConfig.defaultIntensity) > 1,
      allowStrongLanguage |-> OrElse(intensity, cmConfig.defaultIntensity) >= 4]

----------------------------------------------------------------------------
(* PersonalityManager *)

personalities(type) ==
  CASE type = <<"enthusiastic">> ->
         [prefixes |-> <<"Wow! ", "Awesome! ", "Fantastic! ", "Hell yeah! ", "Sweet! ">>,
          suffixes |-> <<"! emoji:rocket", "! emoji:muscle", "! emoji:party", "! emoji:fire", "! emoji:sparkles">>,
          intensifiers |-> <<"absolutely", "completely", "totally", "incredibly", "amazingly">>,
          emojis |-> <<"emoji:rocket", "emoji:muscle", "emoji:party", "emoji:fire",
                       "emoji:sparkles", "emoji:star", "emoji:glowstar">>]
    [] type = <<"sarcastic">> ->
         [prefixes |-> <<"Well... ", "Oh great... ", "Surprise surprise... ", "How shocking... ", "Yay... ">>,
          suffixes |-> <<". emoji:nails", ". emoji:upsidedown", ". emoji:unamused", ". emoji:masks", ". emoji:eyes">>,
          intensifiers |-> <<"totally", "absolutely", "definitely", "clearly">>,
          emojis |-> <<"emoji:nails", "emoji:upsidedown", "emoji:unamused", "emoji:masks",
                       "emoji:eyes", "emoji:thinking", "emoji:smirk">>]
    [] type = <<"professional">> ->
         [prefixes |-> <<"Indeed, ", "Certainly, ", "Absolutely, ", "Excellent, ", "Great, ">>,
          suffixes |-> <<".", "! emoji:slightsmile", ".", "! emoji:thumbsup">>,
          intensifiers |-> <<"quite", "rather", "quite", "fairly">>,
          emojis |-> <<"emoji:thumbsup", "emoji:slightsmile", "emoji:briefcase",
                       "emoji:chart", "emoji:target">>]

enhancedConfigs(type) ==
  CASE type = <<"sarcastic">> ->
         [signaturePhrases |-> << <<"hehe (zh)">>, <<"wo gaosu ni (zh)">>, <<"youqian jiushi renxing (zh)">>,
                                  <<"nimen zhexie fanren (zh)">>, <<"wo ba shi Wang Jianlin (zh)">> >>,
          toneWords |-> << <<"ze (zh)">>, <<"heng (zh)">>, <<"he (zh)">>, <<"qie (zh)">>, <<"o (zh)">> >>,
          attitude |-> <<"superior">>,
          speechPatterns |-> << <<"zhuangbi">>, <<"chaofeng">>, <<"xuanyao">>, <<"qingmie">> >>,
          backgroundContext |-> <<"fuerdai (zh)">>,
          emojiPreferences |-> << <<"emoji:upsidedown">>, <<"emoji:eyes">>, <<"emoji:masks">>, <<"emoji:money">> >>,
          languageStyle |-> <<"casual_arrogant">>]
    [] type = <<"enthusiastic">> ->
         [signaturePhrases |-> << <<"tai bang le! (zh)">>, <<"lihai! (zh)">>,
                                  <<"wo tai xihuan le! (zh)">>, <<"jianzhi wanmei! (zh)">> >>,
          toneWords |-> << <<"wa (zh)">>, <<"o (zh)">>, <<"tianna (zh)">>, <<"tai (zh)">>, <<"zhen (zh)">> >>,
          attitude |-> <<"excited">>,
          speechPatterns |-> << <<"zanmei">>, <<"guli">>, <<"reqing">>, <<"jiji">> >>,
          backgroundContext |-> <<"chongman huoli (zh)">>,
          emojiPreferences |-> << <<"emoji:smile">>, <<"emoji:party">>, <<"emoji:sparkles">>, <<"emoji:fire">> >>,
          languageStyle |-> <<"energetic">>]
    [] type = <<"professional">> ->
         [signaturePhrases |-> << <<"cong zhuanye jiaodu (zh)">>, <<"genju wo de jingyan (zh)">>,
                                  <<"jianyi (zh)">>, <<"zongshang suoshu (zh)">> >>,
          toneWords |-> << <<"en (zh)">>, <<"haode (zh)">>, <<"queshi (zh)">>, <<"buguo (zh)">>, <<"yinci (zh)">> >>,
          attitude |-> <<"formal">>,
          speechPatterns |-> << <<"fenxi">>, <<"jieshi">>, <<"jianyi">>, <<"zongjie">> >>,
          backgroundContext |-> <<"zhuanye renshi (zh)">>,
          emojiPreferences |-> << <<"emoji:chart">>, <<"emoji:briefcase">>, <<"emoji:target">>, <<"emoji:uptrend">> >>,
          languageStyle |-> <<"formal_business">>]

getPersonalityConfig(type, intensity) ==
  [type |-> type,
   intensity |-> Clamp(0, 5, intensity),
   useEmojis |-> intensity > 1,
   allowStrongLanguage |-> intensity >= 4 /\ type = <<"sarcastic">>]

\* The operators that read the persona store take it as `profiles`: within
\* one step the store may already hold the record that the step has added.
getCharacterProfile(profiles, name) ==
  IF name \in DOMAIN profiles THEN Some(profiles[name]) ELSE None

getCharacterEnhancedConfig(profiles, characterName) ==
  IF characterName \in DOMAIN profiles
  THEN Some(profiles[characterName].personality) ELSE None

characterToPersonalityConfig(profiles, characterName, intensity) ==
  IF characterName \notin DOMAIN profiles THEN None
  ELSE LET attitude == profiles[characterName].personality.attitude
           personalityType ==
             IF attitude \in { <<"excited">>, <<"enthusiastic">> } THEN <<"enthusiastic">>
             ELSE IF attitude \in { <<"formal">>, <<"professional">> } THEN <<"professional">>
             ELSE <<"sarcastic">>
       IN Some([type |-> personalityType,
                intensity |-> Clamp(0, 5, intensity),
                useEmojis |-> intensity > 1,
                allowStrongLanguage |->
                  intensity >= 4 /\ attitude \in { <<"superior">>, <<"critical">>, <<"authoritarian">> }])

----------------------------------------------------------------------------
(* PersonalityManager.applyPersonality *)

ZhComma == <<",(zh)">>
Whitespace == {" "}
\* A test that takes only the empty string for blank, against which the
\* property of blank texts is tested
IsEmptyString(text) == text = <<>>

\* !text.trim()
IsBlank(text) == \A i \in 1..Len(text) : text[i] \in Whitespace

\* text.split(" ")
RECURSIVE SplitFrom(_, _, _, _)
SplitFrom(text, sep, i, word) ==
  IF i > Len(text) THEN <<word>>
  ELSE IF text[i] = sep THEN <<word>> \o SplitFrom(text, sep, i + 1, <<>>)
  ELSE SplitFrom(text, sep, i + 1, Append(word, text[i]))
\* text.split(sep), sep one segment
Split(text, sep) == SplitFrom(text, sep, 1, <<>>)

\* words.join(sep)
RECURSIVE JoinWith(_, _)
JoinWith(words, sep) ==
  IF Len(words) = 0 THEN <<>>
  ELSE IF Len(words) = 1 THEN words[1]
  ELSE words[1] \o sep \o JoinWith(Tail(words), sep)

\* text.slice(0, pos) + seg + text.slice(pos)
InsertAt(text, pos, seg) ==
  SubSeq(text, 1, pos) \o <<seg>> \o SubSeq(text, pos + 1, Len(text))

Threw == [threw |-> TRUE]
Ret(v) == [threw |-> FALSE, value |-> v]

\* config is Some(EnhancedPersonalityConfig), or None where the lookup
\* gave undefined: reading a field of it then throws a TypeError
applyEnhancedPersonality(text, config, personality, rnd) ==
  IF config = None
  THEN IF personality.intensity >= 2 THEN Threw ELSE Ret(text)
  ELSE
  LET c == config[1]
      r1 == IF personality.intensity >= 3 /\ Len(c.signaturePhrases) > 0
               /\ Below(rnd.sigGate, 30)
            THEN PickOf(rnd.sigPick, c.signaturePhrases) \o ZhComma \o text
            ELSE text
      r2 == IF personality.intensity >= 2 /\ Len(c.toneWords) > 0
               /\ Below(rnd.toneGate, 40)
            THEN PickOf(rnd.tonePick, c.toneWords) \o ZhComma \o r1
            ELSE r1
      r3 == IF personality.useEmojis /\ personality.intensity >= 4
               /\ Len(c.emojiPreferences) > 0 /\ Below(rnd.emoGate, 50)
            THEN r2 \o <<" ">> \o PickOf(rnd.emoPick, c.emojiPreferences)
            ELSE r2
  IN Ret(r3)

\* the prefix as a string: empty, or one entry of the table
selectPrefix(type, emotion, personality, rnd) ==
  IF type = <<"enthusiastic">> /\ emotion.emotion = "positive"
  THEN <<PickOf(rnd.prefixPick, personalities(type).prefixes)>>
  ELSE IF type = <<"sarcastic">> /\ emotion.emotion = "negative"
  THEN <<PickOf(rnd.prefixPick, personalities(type).prefixes)>>
  ELSE IF type = <<"professional">> /\ personality.intensity >= 3
  THEN <<personalities(type).prefixes[
           Pick(rnd.prefixPick, Min(3, Len(personalities(type).prefixes))) + 1]>>
  ELSE <<>>

selectSuffix(traits, emotion, personality, rnd) ==
  IF personality.intensity >= 3 THEN <<PickOf(rnd.suffixPick, traits.suffixes)>>
  ELSE IF personality.intensity >= 2 THEN <<traits.suffixes[1]>>
  ELSE <<>>

addIntensifiers(text, traits, personality, rnd) ==
  IF personality.intensity < 2 THEN text
  ELSE LET words == Split(text, " ")
       IN IF Len(words) > 3
          THEN LET insertPosition == Len(words) \div 3
                   intensifier == PickOf(rnd.intensPick, traits.intensifiers)
               IN JoinWith([words EXCEPT ![insertPosition + 1] = <<intensifier, " ">> \o @],
                           <<" ">>)
          ELSE text

addRandomEmojis(text, traits, personality, rnd) ==
  IF personality.intensity < 4 \/ ~personality.useEmojis THEN text
  ELSE LET emojiCount == Min(personality.intensity - 3, 2)
           t1 == InsertAt(text, Pick(rnd.emoji1Pos, Len(text) + 1),
                          PickOf(rnd.emoji1Pick, traits.emojis))
           t2 == InsertAt(t1, Pick(rnd.emoji2Pos, Len(t1) + 1),
                          PickOf(rnd.emoji2Pick, traits.emojis))
       IN IF emojiCount >= 2 THEN t2 ELSE IF emojiCount = 1 THEN t1 ELSE text

\* The four steps that applyPersonality applies in turn to `result`
withPrefix(result, emotion, personality, rnd) ==
  IF personality.intensity >= 3
  THEN selectPrefix(personality.type, emotion, personality, rnd) \o result
  ELSE result

withIntensifiers(result, traits, personality, rnd) ==
  IF personality.intensity >= 2
  THEN addIntensifiers(result, traits, personality, rnd) ELSE result

\* A suffix step that already applies at intensity 1, against which the
\* property of the low intensities is tested
withSuffixFromOne(result, traits, emotion, personality, rnd) ==
  IF personality.intensity >= 1
  THEN result \o <<traits.suffixes[1]>> ELSE result

withSuffix(result, traits, emotion, personality, rnd) ==
  IF personality.intensity >= 2
  THEN result \o selectSuffix(traits, emotion, personality, rnd) ELSE result

withEmojis(result, traits, personality, rnd) ==
  IF personality.useEmojis /\ personality.intensity >= 4
  THEN addRandomEmojis(result, traits, personality, rnd) ELSE result

\* applyPersonality after applyEnhancedPersonality has returned or thrown e.
\* A personality type outside the three tables makes traits undefined:
\* selectPrefix matches no type, and selectSuffix, the first to read a field
\* of traits, throws.
applyTraits(e, emotion, personality, rnd) ==
  IF e.threw THEN Threw
  ELSE IF personality.type \notin BuiltIns
  THEN IF personality.intensity >= 2 THEN Threw ELSE Ret(e.value)
  ELSE Ret(withEmojis(
             withSuffix(
               withIntensifiers(
                 withPrefix(e.value, emotion, personality, rnd),
                 personalities(personality.type), personality, rnd),
               personalities(personality.type), emotion, personality, rnd),
             personalities(personality.type), personality, rnd))

\* characterName is the fourth argument, <<>> where the caller passes none.
applyPersonality(profiles, text, emotion, personality, characterName, rnd) ==
  IF IsBlank(text) THEN Ret(text)
  ELSE applyTraits(
         applyEnhancedPersonality(
           text,
           IF characterName # <<>> /\ getCharacterEnhancedConfig(profiles, characterName) # None
           THEN getCharacterEnhancedConfig(profiles, characterName)
           ELSE IF personality.type \in BuiltIns
           THEN Some(enhancedConfigs(personality.type)) ELSE None,
           personality, rnd),
         emotion, personality, rnd)

\* A store that, under a name it already holds, keeps the personality of the
\* old record and takes the rest from the new one, against which the
\* property of the full-record replace is tested
addCharacterMerging(profiles, character) ==
  IF character.name \in DOMAIN profiles
  THEN MapSet(profiles, character.name,
              [character EXCEPT !.personality = profiles[character.name].personality])
  ELSE MapSet(profiles, character.name, character)

\* PersonalityManager.addCharacter
addCharacter(profiles, character) == MapSet(profiles, character.name, character)

\* A delete that reports success whether or not the name was held, against
\* which the value returned by removeCharacter is tested
removeCharacterReportingSuccess(profiles, name) ==
  [profiles |-> MapDel(profiles, {name}), out |-> TRUE]

\* PersonalityManager.removeCharacter: Map.delete removes the entry of the
\* name and returns whether there was one
removeCharacter(profiles, name) ==
  [profiles |-> MapDel(profiles, {name}), out |-> name \in DOMAIN profiles]

----------------------------------------------------------------------------
(* Cosplay: the rewrite *)

\* revision part_005: addNativeLanguageCatchphrase's table, probability in
\* hundredths
foreignCharacters(character) ==
  CASE character = <<"Aoteman (zh)">> ->
         Some([catchphrases |-> << <<"Shainingu! (ja)">>, <<"Urutoraman! (ja)">>,
                                   <<"Hikari no kuni! (ja)">>, <<"Supeshiumu kousen! (ja)">> >>,
               probability |-> 30])
    [] character = <<"Telangpu (zh)">> ->
         Some([catchphrases |-> << <<"Make America Great Again!">>, <<"Tremendous!">>,
                                   <<"Believe me!">>, <<"Sad!">>, <<"Fake news!">> >>,
               probability |-> 40])
    [] character = <<"Milai (zh)">> ->
         Some([catchphrases |-> << <<"Libertad!">>, <<"Viva la libertad!">>,
                                   <<"No hay alternativa!">>, <<"Abajo el socialismo!">> >>,
               probability |-> 30])
    [] character = <<"Jack">> ->
         Some([catchphrases |-> << <<"I top your lung!">>, <<"You are Dao Ge?">>,
                                   <<"I am international killer!">> >>,
               probability |-> 50])
    [] OTHER -> None

ZhBang == <<"!(zh)">>

addNativeLanguageCatchphrase(text, character, intensity, rnd) ==
  LET charConfig == foreignCharacters(character)
  IN IF charConfig = None THEN text
     \* Math.random() < probability * (intensity / 5)
     ELSE IF rnd.cpGate * 5 < charConfig[1].probability * intensity
     THEN LET catchphrase == PickOf(rnd.cpPick, charConfig[1].catchphrases)
              words == Split(text, ZhComma[1])
          IN IF Below(rnd.cpPos, 40) THEN catchphrase \o ZhBang \o text
             ELSE IF Below(rnd.cpPos, 70) THEN text \o <<" ">> \o catchphrase \o ZhBang
             ELSE IF Len(words) > 1
             THEN LET insertIndex == Pick(rnd.cpIndex, Len(words) - 1) + 1
                  IN JoinWith(SubSeq(words, 1, insertIndex) \o <<catchphrase \o ZhBang>>
                                \o SubSeq(words, insertIndex + 1, Len(words)),
                              ZhComma)
             ELSE text \o <<" ">> \o catchphrase \o ZhBang
     ELSE text

\* the `if (Math.random() < 0.2)` around each call of it; only in part_005
withCatchphrase(text, character, intensity, rnd) ==
  IF rev = "part_005" /\ Below(rnd.cpOuter, 20)
  THEN addNativeLanguageCatchphrase(text, character, intensity, rnd)
  ELSE text

\* generateCharacterResponse without a server, for a persona of the store:
\* the decoration is applied in line, gated on the unclamped intensity
decorateWithCharacter(profiles, text, character, intensity, rnd) ==
  LET characterConfig == getCharacterEnhancedConfig(profiles, character)[1]
      personality == characterToPersonalityConfig(profiles, character, intensity)
      r1 == IF intensity >= 3 /\ Len(characterConfig.signaturePhrases) > 0
               /\ Below(rnd.sigGate, 30)
            THEN PickOf(rnd.sigPick, characterConfig.signaturePhrases) \o ZhComma \o text
            ELSE text
      r2 == IF intensity >= 2 /\ Len(characterConfig.toneWords) > 0
               /\ Below(rnd.toneGate, 40)
            THEN PickOf(rnd.tonePick, characterConfig.toneWords) \o ZhComma \o r1
            ELSE r1
      r3 == IF personality # None /\ personality[1].useEmojis /\ intensity >= 4
               /\ Len(characterConfig.emojiPreferences) > 0 /\ Below(rnd.emoGate, 50)
            THEN r2 \o <<" ">> \o PickOf(rnd.emoPick, characterConfig.emojiPreferences)
            ELSE r2
  IN r3

\* "Fallback to old method": createCharacterConfig, analyzeSentiment,
\* applyPersonality (part_005 passes the persona name as fourth argument)
oldMethod(profiles, text, character, intensity, rnd) ==
  LET personality == createCharacterConfig(character, Some(intensity))
      emotion == analyzeSentiment(text)
      result == applyPersonality(profiles, text, emotion, personality,
                                 IF rev = "part_005" THEN character ELSE <<>>, rnd)
  IN IF result.threw THEN Threw
     ELSE Ret(withCatchphrase(result.value, character, intensity, rnd))

\* generateCharacterResponse when getServer() is undefined
localResponse(profiles, text, character, intensity, rnd) ==
  IF getCharacterEnhancedConfig(profiles, character) # None
  THEN Ret(withCatchphrase(decorateWithCharacter(profiles, text, character, intensity, rnd),
                           character, intensity, rnd))
  ELSE oldMethod(profiles, text, character, intensity, rnd)

\* PersonalityManager.getEnhancedConfig: this.enhancedConfigs[type]
getEnhancedConfig(type) ==
  IF type \in BuiltIns THEN Some(enhancedConfigs(type)) ELSE None

\* buildCharacterPrompt: the lines of the dialect block.  The labels are
\* those of part_005; cosplay.ts writes the same lines with Chinese labels.
promptDialect(dialect) ==
  <<"- Dialect Info: ">> \o dialect.name \o <<" (">> \o dialect.region \o <<")\n">>
  \o <<"- Dialect Features: ">> \o JoinWith(dialect.characteristics, <<", ">>) \o <<"\n">>
  \o <<"- Dialect Common Phrases: ">> \o JoinWith(dialect.commonPhrases, <<", ">>) \o <<"\n">>
  \o (IF Len(dialect.slangWords) > 0
      THEN <<"- Dialect Vocabulary: ">> \o JoinWith(dialect.slangWords, <<", ">>) \o <<"\n">>
      ELSE <<>>)
  \o (IF Len(dialect.grammarPatterns) > 0
      THEN <<"- Dialect Grammar Features: ">> \o JoinWith(dialect.grammarPatterns, <<", ">>)
           \o <<"\n">>
      ELSE <<>>)

\* the lines of `if (enhancedConfig) { ... }`
promptConfig(enhancedConfig) ==
  <<"- Background Setting: ">> \o enhancedConfig.backgroundContext \o <<"\n">>
  \o <<"- Speaking Style: ">> \o enhancedConfig.languageStyle \o <<"\n">>
  \o <<"- Attitude Tendency: ">> \o enhancedConfig.attitude \o <<"\n">>
  \o <<"- Signature Lines: ">> \o JoinWith(enhancedConfig.signaturePhrases, <<", ">>) \o <<"\n">>
  \o <<"- Common Tone Words: ">> \o JoinWith(enhancedConfig.toneWords, <<", ">>) \o <<"\n">>
  \o <<"- Expression Patterns: ">> \o JoinWith(enhancedConfig.speechPatterns, <<", ">>) \o <<"\n">>
  \o (IF Field(enhancedConfig, "dialect", None) # None
      THEN promptDialect(enhancedConfig.dialect[1]) ELSE <<>>)

\* the lines of `if (profile) { ... }`
promptProfile(profile) ==
  <<"- Character Name: ">> \o profile.name \o <<"\n">>
  \o <<"- Character Description: ">> \o profile.description \o <<"\n">>
  \o (IF Field(profile, "category", <<>>) # <<>>
      THEN <<"- Character Category: ">> \o profile.category \o <<"\n">> ELSE <<>>)

\* the profile that buildCharacterPrompt describes: the record of the store
\* under the name; part_005 takes the record it is passed, if any, first
promptProfileOf(profiles, character, characterProfile) ==
  IF rev = "part_005" /\ characterProfile # None THEN characterProfile
  ELSE getCharacterProfile(profiles, character)

\* Cosplay.buildCharacterPrompt.  With a profile the enhanced config is the
\* one the store holds under the name, without one that of the built-in type.
buildCharacterPrompt(profiles, character, intensity, context, characterProfile) ==
  <<"You are playing the ">> \o character
  \o <<" character, with the following characteristics:\n">>
  \o (IF promptProfileOf(profiles, character, characterProfile) # None
      THEN promptProfile(promptProfileOf(profiles, character, characterProfile)[1])
           \o (IF getCharacterEnhancedConfig(profiles, character) # None
               THEN promptConfig(getCharacterEnhancedConfig(profiles, character)[1])
               ELSE <<>>)
      ELSE IF getEnhancedConfig(character) # None
      THEN promptConfig(getEnhancedConfig(character)[1])
      ELSE <<>>)
  \o <<"- Performance Intensity: ", ToString(intensity),
        "/5 (higher intensity = more prominent character features)\n">>
  \o (IF context # <<>> THEN <<"- Special Context: ">> \o context \o <<"\n">> ELSE <<>>)
  \o <<"\nPlease fully immerse yourself in this character and re-express the original text in ">>
  \o character \o <<"'s tone and style.">>

\* What the service may answer to the rewrite request
RewriteResponses ==
  { [shape |-> "none"],
    [shape |-> "text", text |-> <<"rewritten", "great">>] }

\* Cosplay.extractTextFromResponse; null is the empty string here, the only
\* use of the result being `resultText || text`
cosplayExtractTextFromResponse(response) ==
  IF response.shape = "text" THEN response.text ELSE <<>>

\* generateCharacterResponse once the rewrite request has settled
rewriteSettled(profiles, text, character, intensity, outcome, rnd) ==
  IF outcome.kind = "reply"
  THEN LET resultText == cosplayExtractTextFromResponse(outcome.response)
       IN Ret(withCatchphrase(StrOr(resultText, text), character, intensity, rnd))
  ELSE oldMethod(profiles, text, character, intensity, rnd)

----------------------------------------------------------------------------
(* Cosplay.cosplayText, checkContentSafety and generateCharacter *)

Characters == { <<>>, <<"sarcastic">>, <<"Jack">> }
Intensities == { None }

\* cosplayText requests: every persona at every intensity on one text from
\* the model, and one request whose text is not marked as model output
CosplayRequests ==
  { [text |-> <<"x", "error", "x">>, character |-> character, intensity |-> intensity,
     context |-> <<>>, description |-> <<>>, isLLMContent |-> TRUE] :
    character \in Characters, intensity \in Intensities }
  \cup { [text |-> <<"x", "great", "x">>, character |-> <<>>, intensity |-> None,
          context |-> <<>>, description |-> <<>>, isLLMContent |-> FALSE] }

GenerateRequests ==
  { [text |-> <<>>, character |-> characterName, intensity |-> None,
     context |-> <<>>, description |-> <<>>, isLLMContent |-> FALSE] :
    characterName \in { <<"Jack">> } }

\* The CharacterGenerationRequest of a call: cosplayText passes
\* request.context as description, generateCharacter passes its argument
GenerationRequestOf(tk) ==
  [characterName |-> tk.req.character,
   description |-> IF tk.op = "cosplay" THEN tk.req.context ELSE tk.req.description]

\* characterCache keys: the persona name in getOrGenerateCharacter,
\* `${characterName}-${description || ""}-${intensity || 3}` in generateCharacter
SynthesisKey(tk) ==
  IF tk.op = "cosplay" THEN tk.req.character
  ELSE tk.req.character \o <<"-">> \o tk.req.description \o <<"-">>
         \o <<ToString(OrElse(tk.req.intensity, 3))>>

isCharacterCacheValid(key) ==
  key \in DOMAIN characterCache /\ now - characterCache[key].timestamp < characterCacheTTL

\* The personality reported in the result, computed between
\* getOrGenerateCharacter and generateCharacterResponse
selectPersonality(profiles, req, generated) ==
  IF rev = "cosplay_ts"
  THEN IF getCharacterProfile(profiles, req.character) # None
       THEN LET c == characterToPersonalityConfig(profiles,
                       StrOr(req.character, <<"sarcastic">>), OrElse(req.intensity, 3))
            IN IF c # None THEN c[1]
               ELSE createCharacterConfig(<<"sarcastic">>, Some(OrElse(req.intensity, 3)))
       ELSE createCharacterConfig(req.character, req.intensity)
  ELSE LET characterProfile == IF generated # None THEN generated
                               ELSE getCharacterProfile(profiles, req.character)
       IN IF characterProfile # None
          THEN LET c == characterToPersonalityConfig(profiles, req.character,
                                                     OrElse(req.intensity, 3))
               IN IF c # None THEN c[1]
                  ELSE createCharacterConfig(req.character, Some(OrElse(req.intensity, 3)))
          ELSE createCharacterConfig(StrOr(req.character, cmConfig.defaultPersonality),
                                     Some(OrElse(req.intensity, cmConfig.defaultIntensity)))

\* The arguments that cosplayText hands to generateCharacterResponse
ResponseCharacter(req) == StrOr(req.character, <<"sarcastic">>)
ResponseIntensity(req) == OrElse(req.intensity, 3)

\* An error that does not carry the reason, against which the property of
\* the rejection is tested
ViolationMessageWithoutReason(verdict) == SafetyCheckFailed

ViolationMessage(verdict) ==
  SafetyCheckFailed \o <<": ">> \o StrOr(verdict.reason, <<"Prohibited content detected">>)

\* getOrGenerateCharacter up to its first await:
\*   "none" "builtin"   null, the built-in logic applies
\*   "store"            the record of the persona store
\*   "cached"           the record of a valid synthesis cache entry
\*   "generate"         dynamicCharacterGenerator.generateCharacter is called
resolveCharacter(req) ==
  IF req.character = <<>> THEN "none"
  ELSE IF rev = "cosplay_ts" /\ getCharacterProfile(characterProfiles, req.character) # None
  THEN "store"
  ELSE IF req.character \in BuiltIns THEN "builtin"
  ELSE IF isCharacterCacheValid(req.character) THEN "cached"
  ELSE "generate"

----------------------------------------------------------------------------
(* The continuations of a call.  Each sets task, done and hits; those from  *)
(* CheckPassed on also set characterCache and characterProfiles.            *)

\* Math.random as drawn by one step
PipelineRandoms == { Uniform(0), Uniform(99) }
\* a step on whose path Math.random is not called draws nothing
Randoms(drawn) == IF drawn THEN PipelineRandoms ELSE { Uniform(0) }

\* prev follows done by one step: when the call recorded in done ran
\* checkContentWithCache, its text, the instant it completed, the number of
\* classifier requests it issued and whether it obtained a verdict
Shift ==
  prev' = IF done.op = "check" \/ (done.op = "cosplay" /\ done.rewrite # "skipped")
          THEN [op |-> done.op, text |-> done.req.text, at |-> now,
                calls |-> done.log.classifier, ok |-> done.verdict # None]
          ELSE prev

\* the call returns or throws
Finish(t, tk, out, h) ==
  /\ Shift
  /\ task' = [task EXCEPT ![t] = IdleTask]
  /\ done' = Spread([op |-> tk.op, task |-> t, req |-> tk.req, log |-> tk.log,
                     classifier |-> tk.classifier, verdict |-> tk.verdict,
                     resolved |-> tk.resolved], out)
  /\ hits' = h

\* the call awaits an external request
Suspend(t, tk, h) ==
  /\ Shift
  /\ task' = [task EXCEPT ![t] = tk]
  /\ done' = NoDone
  /\ hits' = h

\* A return whose tag is computed on the text of the request, against which
\* the property of the tag of the final output is tested
CosplayReturnTaggingInput(t, tk, r, how, h) ==
  IF r.threw
  THEN Finish(t, tk, [status |-> "error", message |-> <<"TypeError">>, rewrite |-> how], h)
  ELSE Finish(t, tk,
              [status |-> "ok", rewrite |-> how,
               result |-> [originalText |-> tk.req.text,
                           emotionizedText |-> r.value,
                           emotion |-> analyzeSentiment(tk.req.text),
                           personality |-> tk.personality[1]]], h)

\* cosplayText from the value of generateCharacterResponse to its return
CosplayReturn(t, tk, r, how, h) ==
  IF r.threw
  THEN Finish(t, tk, [status |-> "error", message |-> <<"TypeError">>, rewrite |-> how], h)
  ELSE Finish(t, tk,
              [status |-> "ok", rewrite |-> how,
               result |-> [originalText |-> tk.req.text,
                           emotionizedText |-> r.value,
                           emotion |-> analyzeSentiment(r.value),
                           personality |-> tk.personality[1]]], h)

\* cosplayText from the value of getOrGenerateCharacter to the rewrite request
Respond(t, tk0, profiles, h, rnd) ==
  LET tk == [tk0 EXCEPT !.personality =
               Some(selectPersonality(profiles, tk0.req, tk0.generated))]
  IN IF ~server
     THEN CosplayReturn(t, tk,
            localResponse(profiles, tk.req.text, ResponseCharacter(tk.req),
                          ResponseIntensity(tk.req), rnd),
            "local", h)
     ELSE Suspend(t, [tk EXCEPT !.pc = "rewrite", !.log = Bump(@, "rewrite"),
                                !.prompt = buildCharacterPrompt(
                                             profiles, ResponseCharacter(tk.req),
                                             ResponseIntensity(tk.req), tk.req.context,
                                             tk.generated)], h)

\* getOrGenerateCharacter and generateCharacter once the generator's result
\* is known: the cache entry, the store record (cosplayText only), the rest
Generated(t, tk0, result, h, rnd) ==
  LET key == SynthesisKey(tk0)
      tk1 == [tk0 EXCEPT !.log = Bump(@, "cacheWrites")]
  IN IF tk0.op = "generate"
     THEN /\ characterCache' =
               MapSet(characterCache, key,
                      [character |-> IF rev = "cosplay_ts" THEN result ELSE result.character,
                       timestamp |-> now])
          /\ UNCHANGED characterProfiles
          /\ Finish(t, tk1, [status |-> "ok", result |-> result], h)
     ELSE /\ characterCache' =
               MapSet(characterCache, key,
                      [character |-> result.character, timestamp |-> now])
          /\ characterProfiles' = addCharacter(characterProfiles, result.character)
          /\ Respond(t, [tk1 EXCEPT !.log = Bump(@, "storeWrites"),
                                    !.generated = Some(result.character)],
                     addCharacter(characterProfiles, result.character), h, rnd)

\* dynamicCharacterGenerator.generateCharacter up to its await
Generate(t, tk0, h, rnd) ==
  LET tk == [tk0 EXCEPT !.log = Bump(@, "synth")]
  IN IF ~server
     THEN Generated(t, tk, generateFallbackCharacter(GenerationRequestOf(tk)), h, rnd)
     ELSE /\ Suspend(t, [tk EXCEPT !.pc = "synth",
                                   !.log = Bump(Bump(@, "trait"), "dialect"),
                                   !.trait = None, !.dialect = None], h)
          /\ UNCHANGED <<characterCache, characterProfiles>>

\* cosplayText after a verdict that is no violation
CheckPassed(t, tk0, h, rnd) ==
  LET kind == resolveCharacter(tk0.req)
      tk == [tk0 EXCEPT !.resolved = kind]
  IN CASE kind \in {"none", "builtin"} ->
            /\ Respond(t, tk, characterProfiles, h, rnd)
            /\ UNCHANGED <<characterCache, characterProfiles>>
       [] kind = "store" ->
            /\ Respond(t, [tk EXCEPT !.generated =
                             getCharacterProfile(characterProfiles, tk.req.character)],
                       characterProfiles, h, rnd)
            /\ UNCHANGED <<characterCache, characterProfiles>>
       [] kind = "cached" ->
            /\ Respond(t, [tk EXCEPT !.generated =
                             Some(characterCache[tk.req.character].character)],
                       characterProfiles,
                       h \cup {[cache |-> "character",
                                age |-> now - characterCache[tk.req.character].timestamp]},
                       rnd)
            /\ UNCHANGED <<characterCache, characterProfiles>>
       [] kind = "generate" -> Generate(t, tk, h, rnd)

\* checkContentSafety returns the verdict; cosplayText throws on a violation
Checked(t, tk0, verdict, h, rnd) ==
  LET tk == [tk0 EXCEPT !.verdict = Some(verdict)]
  IN IF tk.op = "check"
     THEN /\ Finish(t, tk, [status |-> "ok"], h)
          /\ UNCHANGED <<characterCache, characterProfiles>>
     ELSE IF verdict.isViolation
     THEN /\ Finish(t, tk, [status |-> "error", message |-> ViolationMessage(verdict),
                            rewrite |-> "none"], h)
          /\ UNCHANGED <<characterCache, characterProfiles>>
     ELSE CheckPassed(t, tk, h, rnd)

\* checkContentWithCache rejects: "Content safety check failed"
CheckFailed(t, tk, h) ==
  /\ Finish(t, tk, [status |-> "error", message |-> SafetyCheckFailed, rewrite |-> "none"], h)
  /\ UNCHANGED <<characterCache, characterProfiles>>

\* checkContentWithCache up to its await
CheckContentWithCache(t, tk, rnd) ==
  LET text == tk.req.text
      cacheKey == getCacheKey(text)
      lookup == safetyLookup(text)
  IN CASE lookup = "hit" ->
            /\ Checked(t, tk, safetyCache[cacheKey].result,
                       {[cache |-> "safety", age |-> now - safetyCache[cacheKey].timestamp]},
                       rnd)
            /\ UNCHANGED safetyCache
       [] lookup = "disabled" ->
            /\ safetyCache' = safetyStore(text, DisabledVerdict)
            /\ Checked(t, [tk EXCEPT !.log = Bump(@, "safetyWrites")], DisabledVerdict, {}, rnd)
       [] lookup = "noserver" ->
            /\ CheckFailed(t, [tk EXCEPT !.classifier = "noserver"], {})
            /\ UNCHANGED safetyCache
       [] lookup = "call" ->
            /\ Suspend(t, [tk EXCEPT !.pc = "classifier", !.log = Bump(@, "classifier")], {})
            /\ UNCHANGED <<safetyCache, characterCache, characterProfiles>>

----------------------------------------------------------------------------
(* Actions *)

MaxCalls == 2

\* The records that add_character may put in the persona store
StoredProfiles ==
  { [name |-> <<"sarcastic">>, description |-> <<"a stored record">>,
     personality |-> Spread(LLMTraits, [dialect |-> None]), category |-> <<"custom">>] }

\* A step that completes no call and looks up no cache
Quiet == Shift /\ done' = NoDone /\ hits' = {} /\ UNCHANGED <<task, calls>>

\* The client issues its commands one after the other: a command that
\* changes the configuration, the store or the cache comes between two
\* calls, as long as a call is still to come.
Between == calls < MaxCalls /\ \A t \in DOMAIN task : task[t].pc = "idle"

\* Time passes between two calls: the instants are minutes apart, a call
\* is taken to last less than the clock resolves.  The code reads the clock
\* only to subtract a timestamp from it, so the clock is counted from the
\* first call.
Tick ==
  /\ Between /\ calls > 0
  /\ \E later \in Instants : later > now /\ now' = later
  /\ Quiet
  /\ UNCHANGED <<rev, server, cmConfig, checkerConfig, safetyCache, characterCache,
                 characterProfiles>>

\* Cosplay.setServer, called while the server starts
SetServer ==
  /\ ~server /\ calls = 0
  /\ server' = TRUE
  /\ Quiet
  /\ UNCHANGED <<rev, now, cmConfig, checkerConfig, safetyCache, characterCache,
                 characterProfiles>>

\* Cosplay.updateContentSafetyConfig
UpdateContentSafetyConfig(updates) ==
  /\ Between
  /\ cmConfig' = updateContentSafetyConfig(updates)
  /\ checkerConfig' = checkerUpdateConfig(updates)
  /\ Quiet
  /\ UNCHANGED <<rev, now, server, safetyCache, characterCache, characterProfiles>>

AddCharacter(character) ==
  /\ Between
  /\ characterProfiles' = addCharacter(characterProfiles, character)
  /\ Quiet
  /\ UNCHANGED <<rev, now, server, cmConfig, checkerConfig, safetyCache, characterCache>>

\* Cosplay.clearCharacterCache
ClearCharacterCache ==
  /\ Between
  /\ characterCache' = EmptyMap
  /\ Quiet
  /\ UNCHANGED <<rev, now, server, cmConfig, checkerConfig, safetyCache, characterProfiles>>

Stable == UNCHANGED <<rev, now, server, cmConfig, checkerConfig>>

Begin(t) ==
  /\ task[t].pc = "idle"
  /\ calls < MaxCalls
  /\ calls' = calls + 1
  /\ Stable

\* checkContentSafety(text)
StartCheck(t, text) ==
  /\ Begin(t)
  /\ CheckContentWithCache(t, [IdleTask EXCEPT !.op = "check", !.pc = "running",
                                               !.req = [NoReq EXCEPT !.text = text]],
                           Uniform(0))

\* cosplayText(request)
StartCosplay(t, request) ==
  /\ Begin(t)
  /\ LET tk == [IdleTask EXCEPT !.op = "cosplay", !.pc = "running", !.req = request]
     IN IF rev = "part_005" /\ ~request.isLLMContent
        THEN /\ Finish(t, tk,
                       [status |-> "ok", rewrite |-> "skipped",
                        result |-> [originalText |-> request.text,
                                    emotionizedText |-> request.text,
                                    emotion |-> analyzeSentiment(request.text),
                                    personality |->
                                      createCharacterConfig(<<"professional">>, Some(1))]],
                       {})
             /\ UNCHANGED <<safetyCache, characterCache, characterProfiles>>
        ELSE \E rnd \in Randoms(~server) : CheckContentWithCache(t, tk, rnd)

\* Cosplay.generateCharacter(request)
StartGenerate(t, request) ==
  /\ Begin(t)
  /\ UNCHANGED safetyCache
  /\ LET tk == [IdleTask EXCEPT !.op = "generate", !.pc = "running", !.req = request]
         key == SynthesisKey(tk)
     IN IF isCharacterCacheValid(key)
        THEN /\ Finish(t, tk,
                       [status |-> "ok",
                        result |-> IF rev = "cosplay_ts" THEN characterCache[key].character
                                   ELSE [success |-> TRUE,
                                         character |-> characterCache[key].character]],
                       {[cache |-> "character", age |-> now - characterCache[key].timestamp]})
             /\ UNCHANGED <<characterCache, characterProfiles>>
        ELSE Generate(t, tk, {}, Uniform(0))

Reply(response) == [kind |-> "reply", response |-> response]
Failure(kind) == [kind |-> kind]

\* how the classifier request ended, as recorded in done.classifier: with a
\* response that holds a verdict, with one that holds none, or without one
ClassifierOutcome(outcome) ==
  IF outcome.kind # "reply" THEN outcome.kind
  ELSE IF outcome.response.shape = "text" THEN "verdict"
  ELSE "noverdict"

\* checkWithLLM and the tail of checkContentWithCache once the classifier
\* request has settled
ClassifierSettle(t, outcome) ==
  /\ task[t].pc = "classifier"
  /\ Stable /\ UNCHANGED calls
  /\ LET tk == [task[t] EXCEPT !.pc = "running"]
         parsed == IF outcome.kind = "reply" THEN parseClassifierResponse(outcome.response)
                   ELSE [threw |-> TRUE]
     IN IF parsed.threw
        THEN /\ CheckFailed(t, [tk EXCEPT !.classifier = ClassifierOutcome(outcome)], {})
             /\ UNCHANGED safetyCache
        ELSE /\ safetyCache' = safetyStore(tk.req.text, parsed.verdict)
             /\ Checked(t, [tk EXCEPT !.log = Bump(@, "safetyWrites"),
                                      !.classifier = ClassifierOutcome(outcome)],
                        parsed.verdict, {}, Uniform(0))

ClassifierReply(t, response) == ClassifierSettle(t, Reply(response))
ClassifierError(t) == ClassifierSettle(t, Failure("error"))
\* the 10 s timer of checkWithLLM's Promise.race
ClassifierTimeout(t) == ClassifierSettle(t, Failure("timeout"))

\* Promise.allSettled in DynamicCharacterGenerator.generateCharacter: the
\* step that settles the second promise runs the rest of the call
SynthSettle(t, tk) ==
  /\ Stable /\ UNCHANGED <<calls, safetyCache>>
  /\ IF tk.trait # None /\ tk.dialect # None
     THEN Generated(t, [tk EXCEPT !.pc = "running"],
                    composeCharacter(GenerationRequestOf(tk), tk.trait[1], tk.dialect[1]),
                    {}, Uniform(0))
     ELSE Suspend(t, tk, {}) /\ UNCHANGED <<characterCache, characterProfiles>>

\* log.traitFallbacks and log.dialectFallbacks count the branches that
\* ended in their local fallback
TraitSettle(t, outcome) ==
  /\ task[t].pc = "synth" /\ task[t].trait = None
  /\ SynthSettle(t, [task[t] EXCEPT
         !.trait = Some(traitSettled(outcome)),
         !.log = IF outcome.kind = "reply" THEN @ ELSE Bump(@, "traitFallbacks")])

DialectSettle(t, outcome) ==
  /\ task[t].pc = "synth" /\ task[t].dialect = None
  /\ SynthSettle(t, [task[t] EXCEPT
         !.dialect = Some(dialectSettled(GenerationRequestOf(task[t]), outcome)),
         !.log = IF outcome.kind = "reply" /\ ~dialectParseLLMResponse(outcome.response).threw
                 THEN @ ELSE Bump(@, "dialectFallbacks")])

TraitReply(t, response) == TraitSettle(t, Reply(response))
TraitError(t) == TraitSettle(t, Failure("error"))
DialectReply(t, response) == DialectSettle(t, Reply(response))
DialectError(t) == DialectSettle(t, Failure("error"))

\* how the rewrite request ended, as recorded in done.rewrite
RewriteHow(outcome) ==
  IF outcome.kind # "reply" THEN "failed"
  ELSE IF cosplayExtractTextFromResponse(outcome.response) = <<>> THEN "notext"
  ELSE "reply"

RewriteSettle(t, outcome) ==
  /\ task[t].pc = "rewrite"
  /\ Stable /\ UNCHANGED <<calls, safetyCache, characterCache, characterProfiles>>
  /\ \E rnd \in Randoms(outcome.kind # "reply" \/ rev = "part_005") :
       CosplayReturn(t, [task[t] EXCEPT !.pc = "running"],
                     rewriteSettled(characterProfiles, task[t].req.text,
                                    ResponseCharacter(task[t].req),
                                    ResponseIntensity(task[t].req), outcome, rnd),
                     RewriteHow(outcome), {})

RewriteReply(t, response) == RewriteSettle(t, Reply(response))
RewriteError(t) == RewriteSettle(t, Failure("error"))
\* the 10 s timer of generateCharacterResponse's Promise.race
RewriteTimeout(t) == RewriteSettle(t, Failure("timeout"))

----------------------------------------------------------------------------
(* Specification *)

Init ==
  /\ rev \in Revisions
  /\ now = 0
  /\ server = FALSE
  /\ cmConfig = defaultConfig
  /\ checkerConfig = defaultConfig.contentSafety
  /\ safetyCache = EmptyMap
  /\ characterCache = EmptyMap
  /\ characterProfiles = EmptyMap
  /\ task = [t \in Tasks |-> IdleTask]
  /\ done = NoDone
  /\ hits = {}
  /\ calls = 0
  /\ prev = NoPrev

Next ==
  \/ Tick
  \/ SetServer
  \/ \E updates \in SafetyUpdates : UpdateContentSafetyConfig(updates)
  \/ \E character \in StoredProfiles : AddCharacter(character)
  \/ \E t \in Tasks, text \in Texts : StartCheck(t, text)
  \/ \E t \in Tasks, request \in CosplayRequests : StartCosplay(t, request)
  \/ \E t \in Tasks, request \in GenerateRequests : StartGenerate(t, request)
  \/ \E t \in Tasks, response \in ClassifierResponses : ClassifierReply(t, response)
  \/ \E t \in Tasks : ClassifierError(t)
  \/ \E t \in Tasks : ClassifierTimeout(t)
  \/ \E t \in Tasks, response \in TraitResponses : TraitReply(t, response)
  \/ \E t \in Tasks : TraitError(t)
  \/ \E t \in Tasks, response \in DialectResponses : DialectReply(t, response)
  \/ \E t \in Tasks : DialectError(t)
  \/ \E t \in Tasks, response \in RewriteResponses : RewriteReply(t, response)
  \/ \E t \in Tasks : RewriteError(t)
  \/ \E t \in Tasks : RewriteTimeout(t)

Spec == Init /\ [][Next]_vars

----------------------------------------------------------------------------
(* The persona store and the synthesis cache.  The server starts from a     *)
(* cosplay-config.json that turns the content check off (loadConfig spreads *)
(* the file over the defaults), so that every cosplayText call reaches      *)
(* getOrGenerateCharacter; two callers may be in flight at once.            *)

Callers == {"t1", "t2"}

\* A record that add_character puts in the store under a name that is not
\* built in
CustomProfiles ==
  { [name |-> <<"Jack">>, description |-> <<"a stored record">>,
     personality |-> Spread(LLMTraits, [dialect |-> None]), category |-> <<"custom">>] }

\* cosplayText requests that name the persona, and requests whose text is
\* the empty string
PersonaRequests ==
  { [text |-> <<"x", "great", "x">>, character |-> <<"Jack">>, intensity |-> None,
     context |-> <<>>, description |-> <<>>, isLLMContent |-> TRUE] }
  \cup { [text |-> <<>>, character |-> character, intensity |-> None,
          context |-> <<>>, description |-> <<>>, isLLMContent |-> TRUE] :
          character \in Characters }

PersonaInit ==
  /\ rev \in Revisions
  /\ now = 0
  /\ server = FALSE
  /\ cmConfig = [defaultConfig EXCEPT !.contentSafety.enabled = FALSE]
  /\ checkerConfig = [defaultConfig.contentSafety EXCEPT !.enabled = FALSE]
  /\ safetyCache = EmptyMap
  /\ characterCache = EmptyMap
  /\ characterProfiles = EmptyMap
  /\ task = [t \in Callers |-> IdleTask]
  /\ done = NoDone
  /\ hits = {}
  /\ calls = 0
  /\ prev = NoPrev

PersonaNext ==
  \/ Tick
  \/ SetServer
  \/ \E character \in CustomProfiles : AddCharacter(character)
  \/ ClearCharacterCache
  \/ \E t \in Callers, request \in PersonaRequests : StartCosplay(t, request)
  \/ \E t \in Callers, request \in GenerateRequests : StartGenerate(t, request)
  \/ \E t \in Callers, response \in TraitResponses : TraitReply(t, response)
  \/ \E t \in Callers : TraitError(t)
  \/ \E t \in Callers, response \in DialectResponses : DialectReply(t, response)
  \/ \E t \in Callers : DialectError(t)
  \/ \E t \in Callers, response \in RewriteResponses : RewriteReply(t, response)
  \/ \E t \in Callers : RewriteError(t)
  \/ \E t \in Callers : RewriteTimeout(t)

PersonaSpec == PersonaInit /\ [][PersonaNext]_vars

\* Concurrent cosplayText calls that name the same unknown persona: nothing
\* but these calls writes the store and the synthesis cache.
ConcurrentNext ==
  \/ Tick
  \/ SetServer
  \/ \E t \in Callers, request \in { r \in PersonaRequests : r.character = <<"Jack">> } :
        StartCosplay(t, request)
  \/ \E t \in Callers, response \in TraitResponses : TraitReply(t, response)
  \/ \E t \in Callers : TraitError(t)
  \/ \E t \in Callers, response \in DialectResponses : DialectReply(t, response)
  \/ \E t \in Callers : DialectError(t)
  \/ \E t \in Callers, response \in RewriteResponses : RewriteReply(t, response)
  \/ \E t \in Callers : RewriteError(t)
  \/ \E t \in Callers : RewriteTimeout(t)

ConcurrentSpec == PersonaInit /\ [][ConcurrentNext]_vars

\* Cosplay.removeCharacter between two calls; done keeps the name, the
\* value returned and the record that the store held under the name
RemoveCharacter(name) ==
  /\ Between
  /\ characterProfiles' = removeCharacter(characterProfiles, name).profiles
  /\ Shift
  /\ done' = [op |-> "removeCharacter", task |-> "none", name |-> name,
              out |-> removeCharacter(characterProfiles, name).out,
              removed |-> getCharacterProfile(characterProfiles, name)]
  /\ hits' = {}
  /\ UNCHANGED <<task, calls>>
  /\ UNCHANGED <<rev, now, server, cmConfig, checkerConfig, safetyCache, characterCache>>

\* cosplayText calls that name a persona, with add_character and
\* remove_character commands between them
RemovalNext ==
  \/ Tick
  \/ SetServer
  \/ \E character \in CustomProfiles : AddCharacter(character)
  \/ \E name \in { character.name : character \in CustomProfiles } : RemoveCharacter(name)
  \/ \E t \in Callers, request \in { r \in PersonaRequests : r.character = <<"Jack">> } :
        StartCosplay(t, request)
  \/ \E t \in Callers, response \in TraitResponses : TraitReply(t, response)
  \/ \E t \in Callers : TraitError(t)
  \/ \E t \in Callers, response \in DialectResponses : DialectReply(t, response)
  \/ \E t \in Callers : DialectError(t)
  \/ \E t \in Callers, response \in RewriteResponses : RewriteReply(t, response)
  \/ \E t \in Callers : RewriteError(t)
  \/ \E t \in Callers : RewriteTimeout(t)

RemovalSpec == PersonaInit /\ [][RemovalNext]_vars

\* generateCharacter requests whose template key
\* `${characterName}-${description || ""}-${intensity || 3}` may coincide: a
\* hyphen in the name or in the description, and no description at all
SynthesisRequests ==
  { [text |-> <<>>, character |-> characterName, intensity |-> None,
     context |-> <<>>, description |-> description, isLLMContent |-> FALSE] :
    characterName \in { <<"Jack">>, <<"Jack", "-", "a">> },
    description \in { <<>>, <<"b">>, <<"a", "-", "b">> } }

\* cosplayText requests that name a persona whose name ends like a template
\* key
KeyLikeRequests ==
  { [text |-> <<"x", "great", "x">>, character |-> <<"Jack", "-", "-", "3">>,
     intensity |-> None, context |-> <<>>, description |-> <<>>, isLLMContent |-> TRUE] }

\* cosplayText and generateCharacter calls that share the synthesis cache;
\* no generation service is configured
SynthesisNext ==
  \/ Tick
  \/ \E t \in Callers, request \in KeyLikeRequests : StartCosplay(t, request)
  \/ \E t \in Callers, request \in SynthesisRequests : StartGenerate(t, request)

SynthesisSpec == PersonaInit /\ [][SynthesisNext]_vars

\* Concurrent checkContentSafety calls with the check enabled: a second
\* call may start while the first awaits the classifier.
OverlapInit ==
  /\ rev \in Revisions
  /\ now = 0
  /\ server = FALSE
  /\ cmConfig = defaultConfig
  /\ checkerConfig = defaultConfig.contentSafety
  /\ safetyCache = EmptyMap
  /\ characterCache = EmptyMap
  /\ characterProfiles = EmptyMap
  /\ task = [t \in Callers |-> IdleTask]
  /\ done = NoDone
  /\ hits = {}
  /\ calls = 0
  /\ prev = NoPrev

OverlapNext ==
  \/ Tick
  \/ SetServer
  \/ \E t \in Callers, text \in Texts : StartCheck(t, text)
  \/ \E t \in Callers, response \in ClassifierResponses : ClassifierReply(t, response)
  \/ \E t \in Callers : ClassifierError(t)
  \/ \E t \in Callers : ClassifierTimeout(t)

OverlapSpec == OverlapInit /\ [][OverlapNext]_vars

----------------------------------------------------------------------------
(* The rule-based rewriter and the producers of the intensity               *)
(* configuration, taken as functions.  The initial state holds the          *)
(* arguments of one call in done; the configuration and the store may       *)
(* change before the call; the action of the function applies it and        *)
(* leaves the arguments and the value in done.                              *)

\* ConfigManager.updateConfig
updateConfig(updates) == Spread(cmConfig, updates)

\* what update_config hands to updateConfig, unvalidated
ConfigUpdates ==
  { [defaultIntensity |-> 0], [defaultIntensity |-> 9], [maxIntensity |-> 10],
    [defaultPersonality |-> <<"sarcastic">>], [defaultPersonality |-> <<"Jack">>] }

\* the intensity argument: omitted, or a number inside or outside 0..5
RequestedIntensities == { None } \cup { Some(i) : i \in {-5, 0, 1, 2, 5, 10} }

\* texts of applyPersonality: empty, blank, one word, four words
RewriterTexts ==
  { <<>>, <<" ">>, <<" ", " ">>, <<"x", "great", "x">>,
    <<"a", " ", "b", " ", "c", " ", "d">> }

\* What the service may answer to the dialect request of queryDialect: the
\* replies of DialectResponses, no text, prose, JSON that is no object, an
\* object with an empty name, one without a name, and one whose name is the
\* empty array
DialectReplies ==
  DialectResponses
  \cup { [shape |-> "none"],
         [shape |-> "text", payload |-> [kind |-> "prose"]],
         [shape |-> "text", payload |-> [kind |-> "null"]],
         [shape |-> "text", payload |-> [kind |-> "json", value |->
             [LLMDialect EXCEPT !.name = <<>>]]],
         [shape |-> "text", payload |-> [kind |-> "json", value |->
             [region |-> <<"test region">>, slangWords |-> << <<"slang1">> >>]]],
         [shape |-> "text", payload |-> [kind |-> "json", value |->
             Spread([LLMDialect EXCEPT !.name = <<>>], [arrays |-> {"name"}])]] }

FunctionCalls ==
  { [op |-> "call", task |-> "none", fn |-> "applyPersonality", text |-> text,
     emotion |-> analyzeSentiment(sample),
     personality |-> getPersonalityConfig(type, intensity), rnd |-> Uniform(v)] :
      text \in RewriterTexts, sample \in Texts \cup { <<"x">> },
      type \in BuiltIns, intensity \in 0..5, v \in RandValues }
  \cup { [op |-> "call", task |-> "none", fn |-> fn, character |-> character,
          intensity |-> intensity] :
          fn \in {"createCharacterConfig", "getPersonalityConfig",
                  "characterToPersonalityConfig"},
          character \in BuiltIns \cup { <<"Jack">> },
          intensity \in RequestedIntensities }
  \cup { [op |-> "call", task |-> "none", fn |-> "queryDialect",
          request |-> [characterName |-> characterName], service |-> service] :
          characterName \in { <<"Jack">>, HongXiuquan },
          service \in { [kind |-> "absent"], Failure("error") }
                      \cup { Reply(response) : response \in DialectReplies } }
  \cup { [op |-> "call", task |-> "none", fn |-> "generateCharacterResponse",
          text |-> <<"x", "great", "x">>, character |-> character, intensity |-> intensity,
          rnd |-> Uniform(0)] :
          character \in { <<"sarcastic">>, <<"Jack">> }, intensity \in {1, 3} }

FunctionInit ==
  /\ rev \in Revisions
  /\ now = 0
  /\ server = FALSE
  /\ cmConfig = defaultConfig
  /\ checkerConfig = defaultConfig.contentSafety
  /\ safetyCache = EmptyMap
  /\ characterCache = EmptyMap
  /\ characterProfiles = EmptyMap
  /\ task = [t \in Tasks |-> IdleTask]
  /\ done \in FunctionCalls
  /\ hits = {}
  /\ calls = 0
  /\ prev = NoPrev

\* Cosplay.updateConfig
UpdateConfig(updates) ==
  /\ done.op = "call"
  /\ cmConfig' = updateConfig(updates)
  /\ UNCHANGED <<rev, now, server, checkerConfig, safetyCache, characterCache,
                 characterProfiles, task, done, hits, calls, prev>>

\* add_character before the call
StoreCharacter(character) ==
  /\ done.op = "call"
  /\ characterProfiles' = addCharacter(characterProfiles, character)
  /\ UNCHANGED <<rev, now, server, cmConfig, checkerConfig, safetyCache, characterCache,
                 task, done, hits, calls, prev>>

Return(fn, value) ==
  /\ done.op = "call" /\ done.fn = fn
  /\ done' = Spread(done, [op |-> "return", out |-> value])
  /\ UNCHANGED <<rev, now, server, cmConfig, checkerConfig, safetyCache, characterCache,
                 characterProfiles, task, hits, calls, prev>>

ApplyPersonality ==
  Return("applyPersonality",
         applyPersonality(characterProfiles, done.text, done.emotion, done.personality,
                          <<>>, done.rnd))

CreateCharacterConfig ==
  Return("createCharacterConfig", Some(createCharacterConfig(done.character, done.intensity)))

\* the parameter `intensity: number = 3` of the two PersonalityManager
\* functions
GetPersonalityConfig ==
  Return("getPersonalityConfig",
         Some(getPersonalityConfig(done.character,
                                   IF done.intensity = None THEN 3 ELSE done.intensity[1])))

CharacterToPersonalityConfig ==
  Return("characterToPersonalityConfig",
         characterToPersonalityConfig(characterProfiles, done.character,
                                      IF done.intensity = None THEN 3 ELSE done.intensity[1]))

\* DialectService.queryDialect, from the call to its return; the service
\* is absent, fails the request or answers it
QueryDialect ==
  Return("queryDialect",
         IF done.service.kind = "absent" THEN dialectGenerateFallbackDialect(done.request)
         ELSE queryDialectSettled(done.request, done.service))

\* Cosplay.generateCharacterResponse when no service is configured
GenerateCharacterResponse ==
  Return("generateCharacterResponse",
         localResponse(characterProfiles, done.text, done.character, done.intensity,
                       done.rnd))

FunctionNext ==
  \/ \E updates \in ConfigUpdates : UpdateConfig(updates)
  \/ \E character \in CustomProfiles : StoreCharacter(character)
  \/ ApplyPersonality
  \/ CreateCharacterConfig
  \/ GetPersonalityConfig
  \/ CharacterToPersonalityConfig
  \/ QueryDialect
  \/ GenerateCharacterResponse

FunctionSpec == FunctionInit /\ [][FunctionNext]_vars

----------------------------------------------------------------------------
(* The management commands: the persona store and the configuration.  No   *)
(* call is in flight; `done` is the command that ran in the last step,     *)
(* with its arguments and the value it returned.                           *)

\* The records that add_character is given: two names that are not built
\* in and one that is, two different records under each of two names
ManagedProfiles ==
  CustomProfiles \cup StoredProfiles
  \cup { [name |-> name, description |-> <<"another record">>,
          personality |-> Spread([LLMTraits EXCEPT !.attitude = <<"friendly">>],
                                 [dialect |-> None])] :
          name \in { <<"Jack">>, HongXiuquan } }

ManagedNames == { character.name : character \in ManagedProfiles }

\* What update_config hands to updateConfig: a Partial<CosplayConfig>, whose
\* contentSafety is a whole ContentSafetyConfig
ManagedConfigUpdates ==
  { [defaultIntensity |-> 0],
    [contentSafety |-> [enabled |-> FALSE, strictMode |-> TRUE]],
    [contentSafety |-> [enabled |-> TRUE, strictMode |-> FALSE]] }

\* Cosplay.addCharacter
CosplayAddCharacter(character) ==
  /\ characterProfiles' = addCharacter(characterProfiles, character)
  /\ done' = [op |-> "addCharacter", task |-> "none", character |-> character]
  /\ UNCHANGED <<rev, now, server, cmConfig, checkerConfig, safetyCache, characterCache,
                 task, hits, calls, prev>>

\* Cosplay.removeCharacter
CosplayRemoveCharacter(name) ==
  /\ characterProfiles' = removeCharacter(characterProfiles, name).profiles
  /\ done' = [op |-> "removeCharacter", task |-> "none", name |-> name,
              out |-> removeCharacter(characterProfiles, name).out]
  /\ UNCHANGED <<rev, now, server, cmConfig, checkerConfig, safetyCache, characterCache,
                 task, hits, calls, prev>>

\* Cosplay.updateConfig: the ConfigManager alone is told
CosplayUpdateConfig(updates) ==
  /\ cmConfig' = updateConfig(updates)
  /\ done' = [op |-> "updateConfig", task |-> "none", updates |-> updates]
  /\ UNCHANGED <<rev, now, server, checkerConfig, safetyCache, characterCache,
                 characterProfiles, task, hits, calls, prev>>

\* Cosplay.updateContentSafetyConfig: the ConfigManager, then the checker
CosplayUpdateContentSafetyConfig(updates) ==
  /\ cmConfig' = updateContentSafetyConfig(updates)
  /\ checkerConfig' = checkerUpdateConfig(updates)
  /\ done' = [op |-> "updateContentSafetyConfig", task |-> "none", updates |-> updates]
  /\ UNCHANGED <<rev, now, server, safetyCache, characterCache, characterProfiles,
                 task, hits, calls, prev>>

ManageNext ==
  \/ \E character \in ManagedProfiles : CosplayAddCharacter(character)
  \/ \E name \in ManagedNames : CosplayRemoveCharacter(name)
  \/ \E updates \in ManagedConfigUpdates : CosplayUpdateConfig(updates)
  \/ \E updates \in SafetyUpdates : CosplayUpdateContentSafetyConfig(updates)

ManageSpec == Init /\ [][ManageNext]_vars

----------------------------------------------------------------------------
(* The cosplay_text tool of the MCP server (index.ts).  The arguments are   *)
(* those that CosplayRequestSchema accepts; the content check is on, as in  *)
(* the default config.                                                      *)

\* Arguments that CosplayRequestSchema.parse accepts: a non-empty text, the
\* optional character, and the optional isLLMContent mark
ToolArguments ==
  { [text |-> text, character |-> character, intensity |-> None, context |-> <<>>,
     isLLMContent |-> isLLMContent] :
    text \in { <<"x", "great", "x">>, <<"x", "error", "x">> },
    character \in { <<>>, <<"sarcastic">> },
    isLLMContent \in { None, Some(TRUE), Some(FALSE) } }

\* The request that the cosplay_text case builds from the parsed arguments:
\* text, character, intensity and context.  It has no isLLMContent, which
\* cosplayText reads as falsy.
cosplayTextArguments(parsed) ==
  [text |-> parsed.text, character |-> parsed.character, intensity |-> parsed.intensity,
   context |-> parsed.context, description |-> <<>>, isLLMContent |-> FALSE]

\* CallToolRequestSchema handler, case "cosplay_text"
CallCosplayText(t, args) == StartCosplay(t, cosplayTextArguments(args))

ToolNext ==
  \/ Tick
  \/ SetServer
  \/ \E t \in Callers, args \in ToolArguments : CallCosplayText(t, args)
  \/ \E t \in Callers, response \in ClassifierResponses : ClassifierReply(t, response)
  \/ \E t \in Callers : ClassifierError(t)
  \/ \E t \in Callers : ClassifierTimeout(t)
  \/ \E t \in Callers, response \in RewriteResponses : RewriteReply(t, response)
  \/ \E t \in Callers : RewriteError(t)
  \/ \E t \in Callers : RewriteTimeout(t)

ToolInit ==
  /\ rev \in Revisions
  /\ now = 0
  /\ server = FALSE
  /\ cmConfig = defaultConfig
  /\ checkerConfig = defaultConfig.contentSafety
  /\ safetyCache = EmptyMap
  /\ characterCache = EmptyMap
  /\ characterProfiles = EmptyMap
  /\ task = [t \in Callers |-> IdleTask]
  /\ done = NoDone
  /\ hits = {}
  /\ calls = 0
  /\ prev = NoPrev

ToolSpec == ToolInit /\ [][ToolNext]_vars

----------------------------------------------------------------------------

(* Properties.  `done` is the outcome of the call that completed in the     *)
(* last step; its log counts what that call did.                            *)

GateRan == done.op = "check" \/ (done.op = "cosplay" /\ done.rewrite # "skipped")

\* C1: a cosplayText call whose safety verdict has isViolation = true throws
\* an error whose message carries the verdict's reason (the default reason
\* when the verdict has none), and the call has started no synthesis, no
\* trait, dialect or rewrite request, and has written neither the persona
\* store nor the synthesis cache.
C1_ViolationRejectedBeforeAnyWork ==
  (done.op = "cosplay" /\ done.verdict # None /\ done.verdict[1].isViolation) =>
     /\ done.status = "error"
     /\ done.message =
          <<"Content safety check failed", ": ">>
            \o (IF done.verdict[1].reason # <<>> THEN done.verdict[1].reason
                ELSE <<"Prohibited content detected">>)
     /\ done.log.synth = 0 /\ done.log.trait = 0 /\ done.log.dialect = 0
     /\ done.log.rewrite = 0
     /\ done.log.storeWrites = 0 /\ done.log.cacheWrites = 0

C1_Witness ==
  /\ done.op = "cosplay" /\ done.verdict # None /\ done.verdict[1].isViolation
  /\ done.verdict[1].reason = <<"leader-related">>
  /\ done.status = "error"
  /\ done.log.classifier = 1

\* C2: with the safety check enabled, a check whose classifier call failed
\* (no server, error, timeout, or a response that holds no verdict) ends in
\* an error and writes nothing to the safety cache.
C2_ClassifierFailureIsExplicit ==
  (done.op = "check" /\ checkerConfig.enabled
     /\ done.classifier \in {"noserver", "error", "timeout", "noverdict"}) =>
     /\ done.status = "error"
     /\ done.verdict = None
     /\ done.log.safetyWrites = 0

\* C3: while the safety check is disabled, a check returns isViolation =
\* false and issues no classifier request.
C3_DisabledShortCircuits ==
  (done.op = "check" /\ ~checkerConfig.enabled) =>
     /\ done.status = "ok"
     /\ ~done.verdict[1].isViolation
     /\ done.log.classifier = 0

\* C4: with the safety check enabled and a server set, of two successive
\* safety checks of the same text that both obtain a verdict, the second
\* one being made before the TTL has elapsed since the first, at most one
\* issues a classifier request, and when the first issued it the second
\* returns the verdict held by the cache; when the TTL has elapsed since the
\* first, the second issues a classifier request.
C4_OneClassifierCallPerTTL ==
  (GateRan /\ prev.op # "none" /\ prev.text = done.req.text /\ prev.ok
     /\ checkerConfig.enabled /\ server) =>
     /\ (now - prev.at < 5 * 60 * 1000 /\ done.verdict # None) =>
           /\ prev.calls + done.log.classifier <= 1
           /\ prev.calls = 1 =>
                /\ getCacheKey(done.req.text) \in DOMAIN safetyCache
                /\ done.verdict[1] = safetyCache[getCacheKey(done.req.text)].result
     /\ now - prev.at >= 5 * 60 * 1000 => done.log.classifier = 1

C4_Witness ==
  /\ done.op = "check" /\ prev.op = "check" /\ prev.text = done.req.text
  /\ checkerConfig.enabled /\ server
  /\ prev.calls = 1 /\ prev.ok /\ now = prev.at
  /\ done.status = "ok" /\ done.log.classifier = 0

\* C5: every entry that a lookup in the safety cache or in the synthesis
\* cache returns is younger than the TTL of its cache.
C5_NoExpiredEntryReturned ==
  \A h \in hits :
     /\ h.cache = "safety" => h.age < 5 * 60 * 1000
     /\ h.cache = "character" => h.age < 30 * 60 * 1000

C5_Witness ==
  \E h \in hits : h.cache = "character" /\ h.age > 0

\* C6: a cosplayText call on a non-empty text either returns a result whose
\* text is not empty, or fails on a verdict with isViolation = true.
C6_OnlyViolationsFail ==
  (done.op = "cosplay" /\ done.req.text # <<>>) =>
     \/ done.status = "ok" /\ done.result.emotionizedText # <<>>
     \/ /\ done.status = "error"
        /\ done.verdict # None /\ done.verdict[1].isViolation

\* C7: whenever a call awaits an external request, a timeout of that request
\* can fire and is handled by the call.
C7_EveryRequestHasATimeout ==
  \A t \in Tasks :
     task[t].pc # "idle" => ENABLED (ClassifierTimeout(t) \/ RewriteTimeout(t))

\* C8: when the rewrite request failed or its response held no text, the
\* text returned is what the rule-based fallback makes of the request's
\* text, persona and intensity.
C8_RewriteFailureFallsBack ==
  (done.op = "cosplay" /\ done.status = "ok" /\ done.rewrite \in {"failed", "notext"}) =>
     \E rnd \in PipelineRandoms :
        LET local == oldMethod(characterProfiles, done.req.text,
                               ResponseCharacter(done.req), ResponseIntensity(done.req), rnd)
        IN ~local.threw /\ done.result.emotionizedText = local.value

\* What a synthesis that ran in the call recorded in d must have composed:
\* without a server the rule-based record; with one, the traits of the reply
\* or getFallbackPersonalityConfig, and the dialect of the reply or the
\* dialect of DialectService.generateFallbackDialect
SynthesisExpected(record, d) ==
  LET request == [characterName |-> d.req.character,
                  description |-> IF d.op = "cosplay" THEN d.req.context
                                  ELSE d.req.description]
      traitsOf(p) == [k \in (DOMAIN p) \ {"dialect"} |-> p[k]]
  IN /\ record.name = d.req.character
     /\ IF d.log.trait = 0
        THEN record = generateFallbackCharacter(request).character
        ELSE /\ IF d.log.traitFallbacks = 0
                THEN \E response \in TraitResponses :
                        traitsOf(record.personality) = traitParseLLMResponse(response)
                ELSE traitsOf(record.personality) = getFallbackPersonalityConfig(request)
             /\ IF d.log.dialectFallbacks = 0
                THEN \E response \in DialectResponses :
                        /\ ~dialectParseLLMResponse(response).threw
                        /\ record.personality.dialect =
                             Some(dialectParseLLMResponse(response).dialect)
                ELSE record.personality.dialect =
                       Some(dialectGenerateFallbackDialect(
                              [characterName |-> d.req.character]).dialect)

C10_BuiltInsNeverResolveToARecord ==
  (done.op = "cosplay" /\ done.req.character \in BuiltIns
     /\ done.resolved # "unresolved") =>
     /\ done.resolved = "builtin"
     /\ done.log.synth = 0 /\ done.log.trait = 0 /\ done.log.dialect = 0
     /\ done.log.cacheWrites = 0 /\ done.log.storeWrites = 0

----------------------------------------------------------------------------
(* Properties of persona resolution.  They are stated on the steps of a     *)
(* call: After(t) is the call of caller t as the step leaves it, which is   *)
(* in done once the call has completed.                                     *)

After(t) == IF done'.task = t THEN done' ELSE task'[t]

\* the step in which the cosplayText call of caller t passes
\* getOrGenerateCharacter
Resolves(t) ==
  /\ After(t).op = "cosplay"
  /\ task[t].resolved = "unresolved"
  /\ After(t).resolved # "unresolved"

\* the step in which a generateCharacter call of caller t starts
Synthesizes(t) == After(t).op = "generate" /\ task[t].pc = "idle"

\* the step in which the call of caller t writes its synthesis cache entry
Caches(t) ==
  /\ After(t).op \in {"cosplay", "generate"}
  /\ After(t).log.cacheWrites > task[t].log.cacheWrites

\* C11: when the persona store already holds a record under the requested
\* name, which is not built in, a cosplayText call with that name requests
\* no synthesis and leaves the record of the store as it was.
C11_StoredPersonaIsNotSynthesized ==
  [][\A t \in DOMAIN task :
       (Resolves(t) /\ After(t).req.character \in (DOMAIN characterProfiles) \ BuiltIns)
         => /\ After(t).log.synth = 0
            /\ characterProfiles'[After(t).req.character]
                 = characterProfiles[After(t).req.character]]_vars

\* C12: when a synthesis of a name that the cache and the store did not
\* know succeeds, in cosplayText or in generateCharacter, the step that
\* caches the record adds exactly one cache entry and leaves the same record
\* in the persona store under its name.
C12_SynthesisIsCachedAndStored ==
  [][\A t \in DOMAIN task :
       (/\ Caches(t)
        /\ SynthesisKey(After(t)) \notin DOMAIN characterCache
        /\ After(t).req.character \notin DOMAIN characterProfiles)
         => /\ DOMAIN characterCache' = (DOMAIN characterCache) \cup {SynthesisKey(After(t))}
            /\ After(t).req.character \in DOMAIN characterProfiles'
            /\ characterProfiles'[After(t).req.character]
                 = characterCache'[SynthesisKey(After(t))].character]_vars

\* the persona record in a value that generateCharacter returns or caches
RecordOf(value) == IF "character" \in DOMAIN value THEN value.character ELSE value

\* the name is resolved by synthesis alone: add_character has put no record
\* under it
OnlySynthesized(name) ==
  name \notin DOMAIN characterProfiles \/ characterProfiles[name] \notin CustomProfiles

\* C13: a resolution of a persona name that is not built in, by cosplayText
\* or by generateCharacter, requests no synthesis while the cache holds an
\* entry of the name younger than the TTL, and generateCharacter then returns
\* the cached record; when clearCharacterCache has emptied the cache, the
\* resolution of a name that only synthesis resolves requests one synthesis,
\* and the step that caches its record leaves exactly one cache entry.
C13_OneSynthesisWithinTTLAndAfterClear ==
  [][\A t \in DOMAIN task :
       /\ ((Resolves(t) \/ Synthesizes(t)) /\ After(t).req.character \notin BuiltIns \cup {<<>>})
            => /\ isCharacterCacheValid(SynthesisKey(After(t)))
                    => /\ After(t).log.synth = 0
                       /\ Synthesizes(t)
                            => RecordOf(After(t).result)
                                 = RecordOf(characterCache[SynthesisKey(After(t))].character)
               /\ (characterCache = EmptyMap /\ OnlySynthesized(After(t).req.character))
                    => After(t).log.synth = 1
       /\ (Caches(t) /\ characterCache = EmptyMap)
            => Cardinality(DOMAIN characterCache') = 1]_vars

\* C14: a resolution of a persona name that is not built in, whose record
\* comes from synthesis alone and was cached at least the 30 minute TTL ago,
\* requests a new synthesis.
C14_ExpiredSynthesisIsRenewed ==
  [][\A t \in DOMAIN task :
       (/\ Resolves(t) \/ Synthesizes(t)
        /\ After(t).req.character \notin BuiltIns \cup {<<>>}
        /\ OnlySynthesized(After(t).req.character)
        /\ SynthesisKey(After(t)) \in DOMAIN characterCache
        /\ now - characterCache[SynthesisKey(After(t))].timestamp >= characterCacheTTL)
         => After(t).log.synth = 1]_vars

\* the records that a synthesis can produce for a request: the local
\* fallback, or the composition of one outcome of each branch
SynthesizedRecords(request) ==
  { generateFallbackCharacter(request).character }
  \cup { composeCharacter(request, traits, dialect).character :
           traits \in { traitSettled(o) :
                          o \in { Reply(r) : r \in TraitResponses } \cup { Failure("error") } },
           dialect \in { dialectSettled(request, o) :
                           o \in { Reply(r) : r \in DialectResponses } \cup { Failure("error") } } }

\* C15: while cosplayText calls that synthesize the same unknown name
\* overlap, the store and the synthesis cache change only in the step in
\* which one of the calls completes its synthesis, and that step leaves, in
\* the store and in the cache entry of the name, the one complete record of
\* that synthesis; so the store never holds a mix of two records, and in the
\* end both hold the record of the synthesis that completed last.
C15_LastCompleteRecordWins ==
  [][/\ \A t \in DOMAIN task :
          Caches(t) =>
            /\ After(t).req.character \in DOMAIN characterProfiles'
            /\ After(t).req.character \in DOMAIN characterCache'
            /\ characterProfiles'[After(t).req.character]
                 \in SynthesizedRecords(GenerationRequestOf(After(t)))
            /\ characterCache'[After(t).req.character].character
                 = characterProfiles'[After(t).req.character]
            /\ task'[t].pc = "rewrite"
                 => characterProfiles'[After(t).req.character] = task'[t].generated[1]
     /\ (\A t \in DOMAIN task : ~Caches(t))
          => UNCHANGED <<characterProfiles, characterCache>>]_vars

\* two calls have completed their syntheses of the name with different
\* records while neither has returned, and the store holds the record of one
C15_Witness ==
  /\ task["t1"].pc = "rewrite" /\ task["t1"].log.cacheWrites = 1
  /\ task["t2"].pc = "rewrite" /\ task["t2"].log.cacheWrites = 1
  /\ task["t1"].req.character = task["t2"].req.character
  /\ task["t1"].generated # task["t2"].generated
  /\ characterProfiles[task["t1"].req.character] = task["t2"].generated[1]
  /\ characterCache[task["t1"].req.character].character = task["t2"].generated[1]

----------------------------------------------------------------------------
(* Properties of the functions: done holds the arguments and the value of   *)
(* the call.                                                                *)

\* sub occurs in s as a run of consecutive units
Contains(s, sub) ==
  \E i \in 0..(Len(s) - Len(sub)) : SubSeq(s, i + 1, i + Len(sub)) = sub

OnlySpaces(text) == \A i \in 1..Len(text) : text[i] = " "

\* C16: for a text that is not blank, applyPersonality returns, for every
\* built-in persona, sentiment, intensity 0..5 and random draw, a text that
\* holds the input as one contiguous run and is at least as long.
C16_OutputContainsTheText ==
  (done.op = "return" /\ done.fn = "applyPersonality" /\ ~OnlySpaces(done.text))
    => /\ ~done.out.threw
       /\ Contains(done.out.value, done.text)
       /\ Len(done.out.value) >= Len(done.text)

\* C17: applyPersonality returns a text that is empty or holds only
\* whitespace as it is, for every persona, sentiment and intensity.
C17_BlankTextIsReturnedAsIs ==
  (done.op = "return" /\ done.fn = "applyPersonality" /\ OnlySpaces(done.text))
    => done.out = Ret(done.text)

\* a text of two spaces went through applyPersonality at intensity 5, where
\* every decoration step applies to a text that is not blank
C17_Witness ==
  /\ done.op = "return" /\ done.fn = "applyPersonality"
  /\ done.text = <<" ", " ">>
  /\ done.personality.intensity = 5 /\ done.personality.useEmojis
  /\ done.out = Ret(<<" ", " ">>)

\* the call in done has produced an intensity configuration
ConfigProduced ==
  /\ done.op = "return"
  /\ done.fn \in {"createCharacterConfig", "getPersonalityConfig",
                  "characterToPersonalityConfig"}
  /\ done.out # None

\* C19: the intensity of every configuration that createCharacterConfig,
\* getPersonalityConfig or characterToPersonalityConfig produces lies in
\* 0..5, is 0 for a requested intensity below 0 and 5 for one above 5,
\* whether or not the intensity was given and whatever updates the
\* configuration has received.
C19_IntensityIsWithinRange ==
  ConfigProduced
    => /\ done.out[1].intensity \in 0..5
       /\ (done.intensity # None /\ done.intensity[1] < 0) => done.out[1].intensity = 0
       /\ (done.intensity # None /\ done.intensity[1] > 5) => done.out[1].intensity = 5

\* C20: in every configuration produced, useEmojis is true exactly when the
\* normalized intensity of that configuration is above 1.
C20_EmojisIffIntensityAboveOne ==
  ConfigProduced => (done.out[1].useEmojis <=> done.out[1].intensity > 1)

----------------------------------------------------------------------------
(* The empty text *)

\* C18: cosplayText on the empty text returns the empty text and the
\* sentiment neutral, for a built-in, a stored and an unknown persona and
\* whether or not the generation service is there.
C18_EmptyTextStaysEmpty ==
  (done.op = "cosplay" /\ done.req.text = <<>>)
    => /\ done.status = "ok"
       /\ done.result.emotionizedText = <<>>
       /\ done.result.emotion.emotion = "neutral"

\* C21: in every configuration produced, allowStrongLanguage is true
\* exactly when the normalized intensity is at least 4 and the persona is
\* the sarcastic one.
C21_StrongLanguageOnlyForSarcastic ==
  ConfigProduced
    => (done.out[1].allowStrongLanguage
          <=> (done.out[1].intensity >= 4 /\ done.out[1].type = <<"sarcastic">>))

\* C22: queryDialect throws nothing and returns success with a dialect whose
\* name and region are not empty, whether the service is absent, fails or
\* answers, and whatever it answers.
C22_DialectAlwaysNamed ==
  (done.op = "return" /\ done.fn = "queryDialect")
    => /\ "success" \in DOMAIN done.out /\ done.out.success
       /\ done.out.dialect.name # <<>>
       /\ done.out.dialect.region # <<>>

\* the reply is a JSON object with a name and a region that are not empty
NamedReply(response) ==
  /\ response.shape = "text" /\ response.payload.kind = "json"
  /\ Field(response.payload.value, "name", <<>>) # <<>>
  /\ Field(response.payload.value, "region", <<>>) # <<>>

\* C23: when the reply to the dialect request is no JSON object, or lacks a
\* name or a region that is not empty, queryDialect returns exactly the
\* fallback record of the persona name, with nothing from the reply.
C23_UnnamedReplyIsDiscarded ==
  (done.op = "return" /\ done.fn = "queryDialect" /\ done.service.kind = "reply"
     /\ ~NamedReply(done.service.response))
    => done.out = dialectGenerateFallbackDialect(done.request)

\* C24: the persona store is a map from name to record.  A step of
\* addCharacter leaves under the name exactly the record it was given
\* (no field of the record held before) and every other name as it was; a
\* step of removeCharacter returns true exactly when the name was held,
\* leaves the name absent and every other name as it was.  As the store
\* starts empty and only these two steps change it, each name holds at
\* most one record, the last one added since its last removal.
C24_StoreIsAMap ==
  [][ /\ done'.op = "addCharacter" =>
           /\ DOMAIN characterProfiles' = DOMAIN characterProfiles \cup {done'.character.name}
           /\ characterProfiles'[done'.character.name] = done'.character
           /\ \A name \in DOMAIN characterProfiles \ {done'.character.name} :
                 characterProfiles'[name] = characterProfiles[name]
      /\ done'.op = "removeCharacter" =>
           /\ done'.out <=> done'.name \in DOMAIN characterProfiles
           /\ DOMAIN characterProfiles' = DOMAIN characterProfiles \ {done'.name}
           /\ \A name \in DOMAIN characterProfiles' :
                 characterProfiles'[name] = characterProfiles[name]
      /\ done'.op \notin {"addCharacter", "removeCharacter"} =>
           characterProfiles' = characterProfiles ]_vars

\* a name that is not held was removed, reported as false, while another
\* name holds the second of the records added under it
C24_Witness ==
  /\ done.op = "removeCharacter" /\ ~done.out
  /\ HongXiuquan \in DOMAIN characterProfiles
  /\ <<"Jack">> \in DOMAIN characterProfiles
  /\ characterProfiles[ <<"Jack">> ].description = <<"another record">>

\* C28: whatever updateConfig and updateContentSafetyConfig calls have been
\* made, the configuration the ContentSafetyChecker uses is the one that
\* getContentSafetyConfig reports from the ConfigManager.
C28_CheckerFollowsConfigManager == checkerConfig = getContentSafetyConfig

\* C25: the emotion of the result that cosplayText returns is the sentiment
\* analysis of the returned emotionizedText, whichever way the text was
\* produced (the service's reply, the local rewrite after a failed or
\* empty reply, the local rewrite without a service, no rewrite at all).
C25_EmotionIsOfTheOutput ==
  (done.op = "cosplay" /\ done.status = "ok")
    => done.result.emotion = analyzeSentiment(done.result.emotionizedText)

\* the service's reply was returned, and its sentiment is not that of the
\* text of the request
C25_Witness ==
  /\ done.op = "cosplay" /\ done.status = "ok" /\ done.rewrite = "reply"
  /\ done.result.emotion.emotion = "positive"
  /\ analyzeSentiment(done.req.text).emotion = "negative"

\* C26: a cosplayText call whose request is not marked isLLMContent returns
\* the text of the request as emotionizedText and does nothing else: it
\* obtains no safety verdict, sends no classifier, trait, dialect or rewrite
\* request, starts no synthesis, looks up no cache and writes neither the
\* safety cache, the synthesis cache nor the persona store.
C26_UnmarkedRequestIsReturnedUntouched ==
  (done.op = "cosplay" /\ ~done.req.isLLMContent)
    => /\ done.status = "ok"
       /\ done.result.emotionizedText = done.req.text
       /\ done.log = NoLog
       /\ done.verdict = None
       /\ hits = {}

\* C27: while the check is enabled, no safety check returns the verdict
\* that checkContent gives when the check is disabled: once
\* updateContentSafetyConfig({enabled: true}) has run, a text is judged by
\* the classifier or by a cached verdict of the classifier.
C27_NoDisabledVerdictOnceEnabled ==
  (GateRan /\ checkerConfig.enabled /\ done.verdict # None)
    => done.verdict[1] # DisabledVerdict

\* C29: a safety verdict taken from the cache was computed for a text with
\* the same content as the text being checked.  The second call made is
\* answered from the safety cache only with the entry of the first call, so
\* the first call checked the same text.
C29_CachedVerdictIsOfTheSameText ==
  (GateRan /\ calls = 2 /\ \E h \in hits : h.cache = "safety")
    => (prev.op # "none" /\ prev.text = done.req.text)

\* C30: when two checks of the same text overlap, at most one classifier
\* request is issued for the text and both callers receive the same
\* verdict.  No step leaves two callers awaiting the classifier for the
\* same text; and when a check returns a verdict in the step after the
\* check of the other caller returned one for the same text, while it was
\* itself awaiting the classifier, the two verdicts are equal.
C30_OverlappingChecksShareOneCall ==
  [][ /\ \A t, u \in DOMAIN task :
           (t # u /\ task'[t].pc = "classifier" /\ task'[u].pc = "classifier")
             => task'[t].req.text # task'[u].req.text
      /\ (done.op = "check" /\ done'.op = "check" /\ done.task # done'.task
            /\ task[done'.task].pc = "classifier"
            /\ done.req.text = done'.req.text
            /\ done.verdict # None /\ done'.verdict # None)
           => done'.verdict = done.verdict ]_vars

\* C31: a step that writes the safety cache leaves in it no entry whose age
\* has reached the TTL; an entry leaves the safety cache only in a step that
\* writes an entry, and only when its age has reached the TTL; a step that
\* is answered from the safety cache leaves the cache as it was.
C31_SweepOnWritesOnly ==
  [][ /\ safetyCache' # safetyCache =>
           \A k \in DOMAIN safetyCache' : now' - safetyCache'[k].timestamp < cacheTTL
      /\ \A k \in DOMAIN safetyCache \ DOMAIN safetyCache' :
           /\ now' - safetyCache[k].timestamp >= cacheTTL
           /\ \E w \in DOMAIN safetyCache' :
                 /\ safetyCache'[w].timestamp = now'
                 /\ w \in DOMAIN safetyCache => safetyCache'[w] # safetyCache[w]
      /\ (\E h \in hits' : h.cache = "safety") => safetyCache' = safetyCache ]_vars

\* the check of one text has written its entry and swept the entry of the
\* check before it, of another text, whose age had reached the TTL
C31_Witness ==
  /\ done.op = "check" /\ done.log.safetyWrites = 1
  /\ prev.op = "check" /\ prev.ok /\ prev.text # done.req.text
  /\ now - prev.at >= cacheTTL
  /\ rev = "cosplay_ts"
  /\ Cardinality(DOMAIN safetyCache) = 1
  /\ getCacheKey(done.req.text) \in DOMAIN safetyCache

\* C32: once removeCharacter(name) has returned true, a cosplayText call
\* that names the persona is not served the removed record, neither from
\* the store nor from the synthesis cache: the call that resolves the name
\* right after the removal does not take from the store or from the cache a
\* record equal to the removed one.
C32_RemovedRecordIsNotServed ==
  [][ \A t \in DOMAIN task :
        (done.op = "removeCharacter" /\ done.out /\ After(t).op = "cosplay"
           /\ task[t].pc = "idle" /\ After(t).req.character = done.name)
          => /\ After(t).resolved # "store"
             /\ After(t).resolved = "cached"
                  => Some(characterCache[done.name].character) # done.removed ]_vars

\* C33: a generateCharacter call that is answered from the synthesis cache
\* returns a record synthesized for the persona name and the description of
\* its request: the record bears the name of the request and the
\* description that synthesis gives for the request.
C33_SynthesisHitIsOfTheSameRequest ==
  (done.op = "generate" /\ done.status = "ok" /\ \E h \in hits : h.cache = "character")
    => /\ RecordOf(done.result).name = done.req.character
       /\ RecordOf(done.result).description
            = DefaultDescription(GenerationRequestOf(done))

\* C34: the personality in the result of cosplayText describes what was
\* applied: its type is the persona and its intensity the intensity that
\* cosplayText handed to generateCharacterResponse for the request, whether
\* or not the request names a persona or an intensity.
C34_ReportedPersonalityIsTheAppliedOne ==
  (done.op = "cosplay" /\ done.status = "ok" /\ done.rewrite # "skipped")
    => /\ done.result.personality.type = ResponseCharacter(done.req)
       /\ done.result.personality.intensity = ResponseIntensity(done.req)

\* C35: the configuration that generateCharacterResponse hands to
\* applyPersonality has one of the three built-in personas as its type,
\* whatever persona is named and whatever updateConfig calls came before,
\* so that applyPersonality finds the persona's traits and returns a text.
C35_RewriterConfigIsBuiltIn ==
  (done.op = "return" /\ done.fn = "generateCharacterResponse"
     /\ getCharacterEnhancedConfig(characterProfiles, done.character) = None)
    => /\ createCharacterConfig(done.character, Some(done.intensity)).type \in BuiltIns
       /\ ~done.out.threw

\* C36: whenever a synthesis takes the traits from the local fallback (no
\* service is configured, or the trait request failed), the attitude and
\* the emoji set of the record are those that the keyword table gives for
\* the persona name: professional for a teacher, professor or expert,
\* superior for a boss or leader, friendly for any other name.
C36_FallbackTraitsAreInferredFromTheName ==
  (done.op = "generate" /\ done.status = "ok" /\ done.log.synth = 1
     /\ (done.log.trait = 0 \/ done.log.traitFallbacks = 1))
    => /\ RecordOf(done.result).personality.attitude
            = fallbackAttitude(done.req.character).attitude
       /\ RecordOf(done.result).personality.emojiPreferences
            = fallbackAttitude(done.req.character).emojiPreferences

\* C37: at intensity 0 or 1 applyPersonality returns the text it was given,
\* for every text, persona and sentiment: no decoration step applies below
\* intensity 2.
C37_LowIntensityLeavesTheText ==
  (done.op = "return" /\ done.fn = "applyPersonality" /\ done.personality.intensity \in {0, 1})
    => done.out = Ret(done.text)

\* a text of four words with a positive sentiment went through
\* applyPersonality for the enthusiastic persona at intensity 1, with the
\* draws that open every gate at higher intensities
C37_Witness ==
  /\ done.op = "return" /\ done.fn = "applyPersonality"
  /\ done.text = <<"a", " ", "b", " ", "c", " ", "d">>
  /\ done.personality.intensity = 1 /\ done.personality.type = <<"enthusiastic">>
  /\ done.emotion.emotion = "positive"
  /\ done.rnd = Uniform(0)
  /\ done.out = Ret(done.text)


\* the dialect record of the persona that getOrGenerateCharacter resolved
\* for the call, None when it resolved no record or one without a dialect
ResolvedDialect(tk) ==
  IF tk.generated = None THEN None
  ELSE Field(RecordOf(tk.generated[1]).personality, "dialect", None)

HasLine(prompt, label) == \E i \in 1..Len(prompt) : prompt[i] = label

\* C38: the prompt of a rewrite request contains the dialect block exactly
\* when the persona resolved for the call has a dialect record; inside the
\* block the vocabulary line appears exactly when that record's slangWords
\* is non-empty and the grammar line exactly when its grammarPatterns is
\* non-empty; the prompt of a built-in persona contains no dialect block.
C38_DialectBlockFollowsTheResolvedPersona ==
  \A t \in DOMAIN task :
    task[t].pc = "rewrite" =>
      /\ HasLine(task[t].prompt, "- Dialect Info: ") <=> ResolvedDialect(task[t]) # None
      /\ HasLine(task[t].prompt, "- Dialect Info: ") /\ ResolvedDialect(task[t]) # None =>
           /\ HasLine(task[t].prompt, "- Dialect Vocabulary: ")
                <=> Len(ResolvedDialect(task[t])[1].slangWords) > 0
           /\ HasLine(task[t].prompt, "- Dialect Grammar Features: ")
                <=> Len(ResolvedDialect(task[t])[1].grammarPatterns) > 0
      /\ ResponseCharacter(task[t].req) \in BuiltIns =>
           ~HasLine(task[t].prompt, "- Dialect Info: ")


\* C39: a cosplay_text tool call whose arguments carry isLLMContent = true
\* hands cosplayText a request marked as LLM content and is not returned
\* unprocessed (its text enters the safety check and the restyling); a call
\* that is returned unprocessed carried no such mark.
C39_MarkedToolCallIsProcessed ==
  [][ \A t \in Callers, args \in ToolArguments :
        CallCosplayText(t, args) =>
          /\ args.isLLMContent = Some(TRUE) =>
               /\ After(t).req.isLLMContent
               /\ Field(After(t), "rewrite", "none") # "skipped"
          /\ Field(After(t), "rewrite", "none") = "skipped" =>
               args.isLLMContent # Some(TRUE) ]_vars

====
